---- MODULE Spec2Model ----
(***************************************************************************)
(* Medicine availability search: the inventory store, the pharmacy         *)
(* directory, the registrar and the search engine of pharmacyService, and  *)
(* the browser localStorage they persist to.                               *)
(*                                                                         *)
(* Conventions of the model:                                               *)
(*  - a string that the code case-folds (a medicine name, a pharmacy name) *)
(*    is a sequence of one-character strings, so that toLowerCase is       *)
(*    computed character by character; other strings are TLA+ strings;     *)
(*  - lat/lon are integers in units of 1e-4 degree; a distance is an       *)
(*    integer number of tenths of a kilometre (the code rounds every       *)
(*    distance to one decimal place); a price is an integer;               *)
(*  - sequences are 1-based: an index of the code is the model's minus 1,  *)
(*    and findIndex's -1 (not found) is the model's 0;                     *)
(*  - medicine names are ordinary words: none is the name of a property    *)
(*    of Object.prototype (such as "constructor").                         *)
(***************************************************************************)
EXTENDS Integers, Sequences, FiniteSets, TLC

VARIABLES
  inventoryStore,   \* localStorage[GLOBAL_INVENTORY_KEY]
  dynamicStore,     \* localStorage[DYNAMIC_PHARMACIES_KEY]
  last,             \* the last completed call: its arguments, its result, the
                    \* two stored values as they were when it started and, for
                    \* a registration, whether its name was registered before
  registry,         \* history: lower-cased name -> id that the first
                    \* registerOrGetPharmacy call for that name returned
  nops,             \* number of mutating calls made so far
  pending,          \* searches whose timer has not fired yet, oldest first:
                    \* the arguments of the call and, as history, the stored
                    \* values as they stood at each instant since the call
  page              \* PharmacyOwnerPage: the owner, the inventory state of
                    \* the latest render, localStorage[INVENTORY_KEY_<id>] and
                    \* the handleSlipUpload calls that await their parse

vars == <<inventoryStore, dynamicStore, last, registry, nops, pending, page>>

----------------------------------------------------------------------------
(* Bounds *)

\* Mutating calls (upsert, updateStock, remove, registerOrGet) per behaviour.
MaxOps == 2

\* Searches that wait for their timer at the same time.
MaxPending == 1

\* Entries of a dynamic-pharmacy list that the program did not write itself.
MaxDynamic == 3

\* handleSlipUpload calls that await their parse at the same time.
MaxUploads == 1

----------------------------------------------------------------------------
(* types: StockStatus *)

InStock == "In Stock"
LowStock == "Low Stock"
OutOfStock == "Out of Stock"
StockStatus == {InStock, LowStock, OutOfStock}
\* The value of an absent `stock` property (falsy in `item.stock || ...`).
Undefined == "undefined"

----------------------------------------------------------------------------
(* String.prototype.toLowerCase, character by character *)

\* The characters that toLowerCase changes, with what it changes them to.
LowerCaseOf ==
  ("A" :> "a") @@ ("B" :> "b") @@ ("C" :> "c") @@ ("D" :> "d") @@ ("E" :> "e") @@
  ("F" :> "f") @@ ("G" :> "g") @@ ("H" :> "h") @@ ("I" :> "i") @@ ("J" :> "j") @@
  ("K" :> "k") @@ ("L" :> "l") @@ ("M" :> "m") @@ ("N" :> "n") @@ ("O" :> "o") @@
  ("P" :> "p") @@ ("Q" :> "q") @@ ("R" :> "r") @@ ("S" :> "s") @@ ("T" :> "t") @@
  ("U" :> "u") @@ ("V" :> "v") @@ ("W" :> "w") @@ ("X" :> "x") @@ ("Y" :> "y") @@
  ("Z" :> "z")

toLowerCaseChar(c) == IF c \in DOMAIN LowerCaseOf THEN LowerCaseOf[c] ELSE c

toLowerCase(s) == [i \in DOMAIN s |-> toLowerCaseChar(s[i])]

----------------------------------------------------------------------------
(* The seed directory *)

VERIFIED_PHARMACIES_IN_BANGALORE ==
  <<
    [id |-> 21, name |-> <<"A", "p", "o", "l", "l", "o", " ", "P", "h", "a", "r", "m", "a", "c", "y">>,
     address |-> "Mysore Road, Kengeri Satellite Town", phone |-> "080-2848-1122", lat |-> 129189, lon |-> 774856],
    [id |-> 22, name |-> <<"M", "e", "d", "p", "l", "u", "s", " ", "P", "h", "a", "r", "m", "a", "c", "y">>,
     address |-> "Kengeri Main Rd, Opposite Kengeri Bus Terminal", phone |-> "080-2848-3344", lat |-> 129155, lon |-> 774808],
    [id |-> 30, name |-> <<"S", "r", "i", " ", "M", "a", "r", "u", "t", "h", "i", " ", "P", "h", "a", "r", "m", "a">>,
     address |-> "1st Main Road, Kengeri Upanagara", phone |-> "080-2848-5566", lat |-> 129213, lon |-> 774842],
    [id |-> 31, name |-> <<"H", "e", "a", "l", "t", "h", "F", "i", "r", "s", "t", " ", "P", "h", "a", "r", "m", "a", "c", "y">>,
     address |-> "Kommaghatta Main Rd, Kengeri Hobli", phone |-> "080-2848-7788", lat |-> 129252, lon |-> 774759],
    [id |-> 23, name |-> <<"A", "p", "o", "l", "l", "o", " ", "P", "h", "a", "r", "m", "a", "c", "y">>,
     address |-> "Uttarahalli Main Rd, Chikkalasandra", phone |-> "080-2673-5050", lat |-> 129077, lon |-> 775451],
    [id |-> 24, name |-> <<"S", "r", "i", " ", "S", "a", "i", " ", "M", "e", "d", "i", "c", "a", "l", " ", "&", " ", "G", "e", "n", "e", "r", "a", "l", " ", "S", "t", "o", "r", "e", "s">>,
     address |-> "Subramanyapura Main Road", phone |-> "080-2639-1212", lat |-> 129015, lon |-> 775490],
    [id |-> 32, name |-> <<"M", "e", "d", "P", "l", "u", "s", " ", "P", "h", "a", "r", "m", "a", "c", "y">>,
     address |-> "Dr Vishnuvardhan Rd, AGS Layout", phone |-> "080-2639-4455", lat |-> 129058, lon |-> 775401],
    [id |-> 33, name |-> <<"J", "a", "n", " ", "A", "u", "s", "h", "a", "d", "h", "i", " ", "K", "e", "n", "d", "r", "a">>,
     address |-> "Padmanabhanagar, Near Uttarahalli", phone |-> "080-2639-8899", lat |-> 129125, lon |-> 775523],
    [id |-> 25, name |-> <<"A", "p", "o", "l", "l", "o", " ", "P", "h", "a", "r", "m", "a", "c", "y">>,
     address |-> "Near RR Nagar Arch, Mysore Road", phone |-> "080-2860-9090", lat |-> 129265, lon |-> 775188],
    [id |-> 26, name |-> <<"M", "e", "d", "p", "l", "u", "s", " ", "P", "h", "a", "r", "m", "a", "c", "y">>,
     address |-> "8th Cross, BEML Layout, RR Nagar", phone |-> "080-2860-7070", lat |-> 129303, lon |-> 775102],
    [id |-> 27, name |-> <<"D", "a", "v", "a", " ", "D", "i", "s", "c", "o", "u", "n", "t">>,
     address |-> "Ideal Homes Township, RR Nagar", phone |-> "080-2861-1234", lat |-> 129331, lon |-> 775145],
    [id |-> 34, name |-> <<"A", "p", "o", "l", "l", "o", " ", "P", "h", "a", "r", "m", "a", "c", "y", " ", "-", " ", "B", "E", "M", "L", " ", "L", "a", "y", "o", "u", "t">>,
     address |-> "9th Main Rd, BEML Layout, RR Nagar", phone |-> "080-2860-3030", lat |-> 129298, lon |-> 775113],
    [id |-> 18, name |-> <<"A", "p", "o", "l", "l", "o", " ", "P", "h", "a", "r", "m", "a", "c", "y">>,
     address |-> "24th Main Rd, Banashankari 2nd Stage", phone |-> "080-2671-5555", lat |-> 129251, lon |-> 775469],
    [id |-> 28, name |-> <<"W", "e", "l", "l", "n", "e", "s", "s", " ", "F", "o", "r", "e", "v", "e", "r">>,
     address |-> "Outer Ring Rd, Banashankari 3rd Stage", phone |-> "080-2679-8899", lat |-> 129157, lon |-> 775571],
    [id |-> 29, name |-> <<"M", "e", "d", "P", "l", "u", "s", " ", "P", "h", "a", "r", "m", "a", "c", "y">>,
     address |-> "Kathriguppe Main Rd, Banashankari 3rd Stage", phone |-> "080-2672-2200", lat |-> 129105, lon |-> 775603],
    [id |-> 36, name |-> <<"S", "r", "i", " ", "G", "u", "r", "u", " ", "M", "e", "d", "i", "c", "a", "l", "s">>,
     address |-> "Near BDA Complex, BSK 2nd Stage", phone |-> "080-2671-8888", lat |-> 129285, lon |-> 775504],
    [id |-> 37, name |-> <<"V", "i", "v", "e", "k", " ", "P", "h", "a", "r", "m", "a">>,
     address |-> "Kadirenahalli Cross, Banashankari", phone |-> "080-2671-9999", lat |-> 129193, lon |-> 775620],
    [id |-> 1, name |-> <<"A", "p", "o", "l", "l", "o", " ", "P", "h", "a", "r", "m", "a", "c", "y", " ", "-", " ", "J", "a", "y", "a", "n", "a", "g", "a", "r">>,
     address |-> "Jayanagar 9th Block, Bangalore", phone |-> "080-2663-0919", lat |-> 129248, lon |-> 775843],
    [id |-> 2, name |-> <<"W", "e", "l", "l", "n", "e", "s", "s", " ", "F", "o", "r", "e", "v", "e", "r", " ", "-", " ", "K", "o", "r", "a", "m", "a", "n", "g", "a", "l", "a">>,
     address |-> "Koramangala 4th Block, Bangalore", phone |-> "080-4110-2222", lat |-> 129345, lon |-> 776264],
    [id |-> 3, name |-> <<"M", "e", "d", "P", "l", "u", "s", " ", "P", "h", "a", "r", "m", "a", "c", "y", " ", "-", " ", "I", "n", "d", "i", "r", "a", "n", "a", "g", "a", "r">>,
     address |-> "Indiranagar, 100 Feet Rd, Bangalore", phone |-> "080-4092-7575", lat |-> 129784, lon |-> 776408]
  >>

----------------------------------------------------------------------------
(* haversineDistance(userLocation, pharmacy).toFixed(1), in tenths of a km. *)
(* The trigonometry is evaluated ahead of time for the user locations and  *)
(* the pharmacy locations the model uses: <<lat1, lon1, lat2, lon2>> :> d. *)

haversineTable ==
  <<129380, 775220, 129189, 774856>> :> 45 @@
  <<129380, 775220, 129155, 774808>> :> 51 @@
  <<129380, 775220, 129213, 774842>> :> 45 @@
  <<129380, 775220, 129252, 774759>> :> 52 @@
  <<129380, 775220, 129077, 775451>> :> 42 @@
  <<129380, 775220, 129015, 775490>> :> 50 @@
  <<129380, 775220, 129058, 775401>> :> 41 @@
  <<129380, 775220, 129125, 775523>> :> 43 @@
  <<129380, 775220, 129265, 775188>> :> 13 @@
  <<129380, 775220, 129303, 775102>> :> 15 @@
  <<129380, 775220, 129331, 775145>> :> 10 @@
  <<129380, 775220, 129298, 775113>> :> 15 @@
  <<129380, 775220, 129251, 775469>> :> 31 @@
  <<129380, 775220, 129157, 775571>> :> 45 @@
  <<129380, 775220, 129105, 775603>> :> 52 @@
  <<129380, 775220, 129285, 775504>> :> 33 @@
  <<129380, 775220, 129193, 775620>> :> 48 @@
  <<129380, 775220, 129248, 775843>> :> 69 @@
  <<129380, 775220, 129345, 776264>> :> 113 @@
  <<129380, 775220, 129784, 776408>> :> 136 @@
  <<129380, 775220, 129300, 775200>> :> 9 @@
  <<129380, 775220, 129100, 775500>> :> 43 @@
  <<129020, 775580, 129189, 774856>> :> 81 @@
  <<129020, 775580, 129155, 774808>> :> 85 @@
  <<129020, 775580, 129213, 774842>> :> 83 @@
  <<129020, 775580, 129252, 774759>> :> 93 @@
  <<129020, 775580, 129077, 775451>> :> 15 @@
  <<129020, 775580, 129015, 775490>> :> 10 @@
  <<129020, 775580, 129058, 775401>> :> 20 @@
  <<129020, 775580, 129125, 775523>> :> 13 @@
  <<129020, 775580, 129265, 775188>> :> 50 @@
  <<129020, 775580, 129303, 775102>> :> 61 @@
  <<129020, 775580, 129331, 775145>> :> 58 @@
  <<129020, 775580, 129298, 775113>> :> 59 @@
  <<129020, 775580, 129251, 775469>> :> 28 @@
  <<129020, 775580, 129157, 775571>> :> 15 @@
  <<129020, 775580, 129105, 775603>> :> 10 @@
  <<129020, 775580, 129285, 775504>> :> 31 @@
  <<129020, 775580, 129193, 775620>> :> 20 @@
  <<129020, 775580, 129248, 775843>> :> 38 @@
  <<129020, 775580, 129345, 776264>> :> 82 @@
  <<129020, 775580, 129784, 776408>> :> 124 @@
  <<129020, 775580, 129300, 775200>> :> 52 @@
  <<129020, 775580, 129100, 775500>> :> 12

haversineDistance(loc1, loc2) ==
  haversineTable[<<loc1.lat, loc1.lon, loc2.lat, loc2.lon>>]

----------------------------------------------------------------------------
(* localStorage: a key holds nothing (getItem returns null), a JSON text,   *)
(* modelled by the value the text parses to, or a text that JSON.parse      *)
(* rejects with a SyntaxError, modelled by the value it held before it was  *)
(* damaged.                                                                 *)

\* Math.min / Math.max of a non-empty finite set of integers
SetMin(S) == CHOOSE m \in S : \A x \in S : m <= x
SetMax(S) == CHOOSE m \in S : \A x \in S : x <= m

NullItem == [kind |-> "null"]
JsonItem(v) == [kind |-> "json", val |-> v]
CorruptItem(v) == [kind |-> "corrupt", val |-> v]

\* {} : no medicine key
EmptyInventory == [k \in {} |-> <<>>]

\* Faulty variant: the damaged text is read as if it were intact.
getGlobalInventory_Lenient(stored) ==
  IF stored.kind \in {"json", "corrupt"} THEN stored.val ELSE EmptyInventory

\* try { stored ? JSON.parse(stored) : {} } catch { return {} }
getGlobalInventory(stored) ==
  IF stored.kind = "json" THEN stored.val ELSE EmptyInventory

saveGlobalInventory(inventory) == JsonItem(inventory)

\* saveGlobalInventory when localStorage.setItem throws (the quota is
\* exceeded, or storage is disabled): the catch block logs the error and
\* the function returns normally; the key keeps the value it had.
saveGlobalInventoryUnwritable(stored) == [stored |-> stored, threw |-> FALSE]

\* Array.prototype.findIndex(p => p.pharmacyId === pharmacyId), 1-based; 0: none
findPharmacyEntryIndex(entries, pharmacyId) ==
  LET found == {i \in DOMAIN entries : entries[i].pharmacyId = pharmacyId}
  IN IF found = {} THEN 0 ELSE SetMin(found)

\* Faulty variant: every item is appended.
updateGlobalInventoryItem_Append(globalInventory, pharmacyId, item) ==
  LET medicineKey == toLowerCase(item.medicineName)
      withKey == IF medicineKey \in DOMAIN globalInventory
                   THEN globalInventory
                   ELSE globalInventory @@ (medicineKey :> <<>>)
      stock == IF item.stock = Undefined THEN InStock ELSE item.stock
  IN [withKey EXCEPT ![medicineKey] =
        Append(@, [pharmacyId |-> pharmacyId, price |-> item.price, stock |-> stock])]

\* Faulty variant: the medicine key is the name as given, not lower-cased.
updateGlobalInventoryItem_CaseSensitive(globalInventory, pharmacyId, item) ==
  LET medicineKey == item.medicineName
      withKey == IF medicineKey \in DOMAIN globalInventory
                   THEN globalInventory
                   ELSE globalInventory @@ (medicineKey :> <<>>)
      pharmacyEntryIndex == findPharmacyEntryIndex(withKey[medicineKey], pharmacyId)
      stock == IF item.stock = Undefined THEN InStock ELSE item.stock
  IN IF pharmacyEntryIndex > 0
       THEN [withKey EXCEPT ![medicineKey][pharmacyEntryIndex].price = item.price,
                            ![medicineKey][pharmacyEntryIndex].stock = stock]
       ELSE [withKey EXCEPT ![medicineKey] =
               Append(@, [pharmacyId |-> pharmacyId, price |-> item.price, stock |-> stock])]

\* The body of items.forEach in updateGlobalInventory, for one item.
\* Faulty variant: the stock of the item is stored as it comes, without the
\* default.
updateGlobalInventoryItem_NoDefault(globalInventory, pharmacyId, item) ==
  LET medicineKey == toLowerCase(item.medicineName)
      withKey == IF medicineKey \in DOMAIN globalInventory
                   THEN globalInventory
                   ELSE globalInventory @@ (medicineKey :> <<>>)
      pharmacyEntryIndex == findPharmacyEntryIndex(withKey[medicineKey], pharmacyId)
  IN IF pharmacyEntryIndex > 0
       THEN [withKey EXCEPT ![medicineKey][pharmacyEntryIndex].price = item.price,
                            ![medicineKey][pharmacyEntryIndex].stock = item.stock]
       ELSE [withKey EXCEPT ![medicineKey] =
               Append(@, [pharmacyId |-> pharmacyId, price |-> item.price,
                          stock |-> item.stock])]

\* Faulty variant: an existing record is taken out and the new values are
\* appended at the end of the list.
updateGlobalInventoryItem_MoveToEnd(globalInventory, pharmacyId, item) ==
  LET medicineKey == toLowerCase(item.medicineName)
      withKey == IF medicineKey \in DOMAIN globalInventory
                   THEN globalInventory
                   ELSE globalInventory @@ (medicineKey :> <<>>)
      stock == IF item.stock = Undefined THEN InStock ELSE item.stock
  IN [withKey EXCEPT ![medicineKey] =
        Append(SelectSeq(@, LAMBDA p : p.pharmacyId # pharmacyId),
               [pharmacyId |-> pharmacyId, price |-> item.price, stock |-> stock])]

updateGlobalInventoryItem(globalInventory, pharmacyId, item) ==
  LET medicineKey == toLowerCase(item.medicineName)
      withKey == IF medicineKey \in DOMAIN globalInventory
                   THEN globalInventory
                   ELSE globalInventory @@ (medicineKey :> <<>>)
      pharmacyEntryIndex == findPharmacyEntryIndex(withKey[medicineKey], pharmacyId)
      stock == IF item.stock = Undefined THEN InStock ELSE item.stock
  IN IF pharmacyEntryIndex > 0
       THEN [withKey EXCEPT ![medicineKey][pharmacyEntryIndex].price = item.price,
                            ![medicineKey][pharmacyEntryIndex].stock = stock]
       ELSE [withKey EXCEPT ![medicineKey] =
               Append(@, [pharmacyId |-> pharmacyId, price |-> item.price, stock |-> stock])]

RECURSIVE updateGlobalInventoryItems(_, _, _)
updateGlobalInventoryItems(globalInventory, pharmacyId, items) ==
  IF items = <<>>
    THEN globalInventory
    ELSE updateGlobalInventoryItems(
           updateGlobalInventoryItem(globalInventory, pharmacyId, Head(items)),
           pharmacyId, Tail(items))

\* Faulty variant: the map is saved after the first item of the batch and
\* the other items are dropped.
updateGlobalInventory_FirstOnly(stored, pharmacyId, items) ==
  saveGlobalInventory(
    updateGlobalInventoryItems(getGlobalInventory(stored), pharmacyId,
                               IF items = <<>> THEN <<>> ELSE <<Head(items)>>))

\* The stored value after updateGlobalInventory(pharmacyId, items).
updateGlobalInventory(stored, pharmacyId, items) ==
  saveGlobalInventory(
    updateGlobalInventoryItems(getGlobalInventory(stored), pharmacyId, items))

\* The stored value after updateStockStatusInGlobalInventory(pharmacyId, medicineName, stock).
updateStockStatusInGlobalInventory(stored, pharmacyId, medicineName, stock) ==
  LET globalInventory == getGlobalInventory(stored)
      medicineKey == toLowerCase(medicineName)
  IN IF medicineKey \in DOMAIN globalInventory
       THEN LET pharmacyEntryIndex ==
                  findPharmacyEntryIndex(globalInventory[medicineKey], pharmacyId)
            IN IF pharmacyEntryIndex > 0
                 THEN saveGlobalInventory(
                        [globalInventory EXCEPT ![medicineKey][pharmacyEntryIndex].stock = stock])
                 ELSE stored
       ELSE stored

\* Faulty variant: the key is deleted with the records of every pharmacy.
deleteFromGlobalInventory_DropsKey(stored, pharmacyId, medicineName) ==
  LET globalInventory == getGlobalInventory(stored)
      medicineKey == toLowerCase(medicineName)
  IN saveGlobalInventory(
       [k \in DOMAIN globalInventory \ {medicineKey} |-> globalInventory[k]])

\* Faulty variant: a list that becomes empty stays in the map.
deleteFromGlobalInventory_KeepKey(stored, pharmacyId, medicineName) ==
  LET globalInventory == getGlobalInventory(stored)
      medicineKey == toLowerCase(medicineName)
  IN saveGlobalInventory(
       IF medicineKey \in DOMAIN globalInventory
         THEN [globalInventory EXCEPT ![medicineKey] =
                 SelectSeq(@, LAMBDA p : p.pharmacyId # pharmacyId)]
         ELSE globalInventory)

\* Faulty variant: the filter keeps the records of pharmacyId instead of dropping them.
deleteFromGlobalInventory_KeepOwn(stored, pharmacyId, medicineName) ==
  LET globalInventory == getGlobalInventory(stored)
      medicineKey == toLowerCase(medicineName)
      filtered == SelectSeq(globalInventory[medicineKey],
                            LAMBDA p : p.pharmacyId = pharmacyId)
  IN saveGlobalInventory(
       IF medicineKey \in DOMAIN globalInventory
         THEN IF Len(filtered) = 0
                THEN [k \in DOMAIN globalInventory \ {medicineKey} |-> globalInventory[k]]
                ELSE [globalInventory EXCEPT ![medicineKey] = filtered]
         ELSE globalInventory)

\* The stored value after deleteFromGlobalInventory(pharmacyId, medicineName).
deleteFromGlobalInventory(stored, pharmacyId, medicineName) ==
  LET globalInventory == getGlobalInventory(stored)
      medicineKey == toLowerCase(medicineName)
      filtered == SelectSeq(globalInventory[medicineKey],
                            LAMBDA p : p.pharmacyId # pharmacyId)
  IN saveGlobalInventory(
       IF medicineKey \in DOMAIN globalInventory
         THEN IF Len(filtered) = 0
                THEN [k \in DOMAIN globalInventory \ {medicineKey} |-> globalInventory[k]]
                ELSE [globalInventory EXCEPT ![medicineKey] = filtered]
         ELSE globalInventory)

getPharmaciesForMedicine(stored, medicineName) ==
  LET globalInventory == getGlobalInventory(stored)
      medicineKey == toLowerCase(medicineName)
  IN IF medicineKey \in DOMAIN globalInventory THEN globalInventory[medicineKey] ELSE <<>>

----------------------------------------------------------------------------
(* Pharmacy directory and registrar *)

getDynamicPharmacies(stored) ==
  IF stored.kind = "json" THEN stored.val ELSE <<>>

saveDynamicPharmacies(pharmacies) == JsonItem(pharmacies)

\* saveDynamicPharmacies when localStorage.setItem throws: logged in the
\* catch block, nothing rethrown; the key keeps the value it had.
saveDynamicPharmaciesUnwritable(stored) == [stored |-> stored, threw |-> FALSE]

\* ({ id, name, address, phone, lat, lon }) => ({ id, name, address, phone, lat, lon })
basePharmacy(p) ==
  [id |-> p.id, name |-> p.name, address |-> p.address, phone |-> p.phone,
   lat |-> p.lat, lon |-> p.lon]

mapBase(pharmacies) == [i \in DOMAIN pharmacies |-> basePharmacy(pharmacies[i])]

\* Faulty variant: the dynamic pharmacies are not filtered by id.
getCombinedPharmacies_NoFilter(stored) ==
  mapBase(VERIFIED_PHARMACIES_IN_BANGALORE) \o mapBase(getDynamicPharmacies(stored))

getCombinedPharmacies(stored) ==
  LET dynamicPharmacies == getDynamicPharmacies(stored)
      verifiedIds == {VERIFIED_PHARMACIES_IN_BANGALORE[i].id :
                        i \in DOMAIN VERIFIED_PHARMACIES_IN_BANGALORE}
      uniqueDynamicPharmacies ==
        SelectSeq(dynamicPharmacies, LAMBDA p : p.id \notin verifiedIds)
  IN mapBase(VERIFIED_PHARMACIES_IN_BANGALORE) \o mapBase(uniqueDynamicPharmacies)

\* Faulty variant: the names are compared as given.
findExistingPharmacy_CaseSensitive(allPharmacies, name) ==
  LET found == {i \in DOMAIN allPharmacies : allPharmacies[i].name = name}
  IN IF found = {} THEN 0 ELSE SetMin(found)

\* Faulty variant: only the seeds are searched for the name.
findExistingPharmacy_SeedsOnly(allPharmacies, name) ==
  LET lowerName == toLowerCase(name)
      found == {i \in DOMAIN VERIFIED_PHARMACIES_IN_BANGALORE :
                  toLowerCase(allPharmacies[i].name) = lowerName}
  IN IF found = {} THEN 0 ELSE SetMin(found)

\* Array.prototype.find by lower-cased name, as a 1-based index; 0: undefined
findExistingPharmacy(allPharmacies, name) ==
  LET lowerName == toLowerCase(name)
      found == {i \in DOMAIN allPharmacies :
                  toLowerCase(allPharmacies[i].name) = lowerName}
  IN IF found = {} THEN 0 ELSE SetMin(found)

\* Baseline of Math.max(..., 1000) in registerOrGetPharmacy.
ID_BASELINE == 1000

\* Faulty variant: the maximum is taken without the baseline.
registerOrGetPharmacy_NoBaseline(stored, details, location) ==
  LET allPharmacies == getCombinedPharmacies(stored)
      existing == findExistingPharmacy(allPharmacies, details.name)
      dynamicPharmacies == getDynamicPharmacies(stored)
      maxId == SetMax({dynamicPharmacies[i].id : i \in DOMAIN dynamicPharmacies}
                      \cup {VERIFIED_PHARMACIES_IN_BANGALORE[i].id :
                              i \in DOMAIN VERIFIED_PHARMACIES_IN_BANGALORE})
      newPharmacy == [id |-> maxId + 1, name |-> details.name,
                      address |-> details.address, phone |-> details.phone,
                      lat |-> location.lat, lon |-> location.lon,
                      distance |-> 0, price |-> 0, priceUnit |-> "",
                      stock |-> OutOfStock, isBestOption |-> FALSE]
  IN IF existing > 0
       THEN [ret |-> allPharmacies[existing], stored |-> stored]
       ELSE [ret |-> basePharmacy(newPharmacy),
             stored |-> saveDynamicPharmacies(Append(dynamicPharmacies, newPharmacy))]

\* Faulty variant: the maximum is taken over the seed ids and the baseline only.
registerOrGetPharmacy_IgnoresDynamic(stored, details, location) ==
  LET allPharmacies == getCombinedPharmacies(stored)
      existing == findExistingPharmacy(allPharmacies, details.name)
      dynamicPharmacies == getDynamicPharmacies(stored)
      maxId == SetMax({VERIFIED_PHARMACIES_IN_BANGALORE[i].id :
                         i \in DOMAIN VERIFIED_PHARMACIES_IN_BANGALORE}
                      \cup {ID_BASELINE})
      newPharmacy == [id |-> maxId + 1, name |-> details.name,
                      address |-> details.address, phone |-> details.phone,
                      lat |-> location.lat, lon |-> location.lon,
                      distance |-> 0, price |-> 0, priceUnit |-> "",
                      stock |-> OutOfStock, isBestOption |-> FALSE]
  IN IF existing > 0
       THEN [ret |-> allPharmacies[existing], stored |-> stored]
       ELSE [ret |-> basePharmacy(newPharmacy),
             stored |-> saveDynamicPharmacies(Append(dynamicPharmacies, newPharmacy))]

\* registerOrGetPharmacy(details, location): the pharmacy it resolves to and
\* the stored dynamic list after the call.
\* Faulty variant: a registration under a name that exists overwrites the
\* address, phone and location of the stored pharmacy.
registerOrGetPharmacy_UpdatesMatch(stored, details, location) ==
  LET allPharmacies == getCombinedPharmacies(stored)
      existing == findExistingPharmacy(allPharmacies, details.name)
      dynamicPharmacies == getDynamicPharmacies(stored)
      key == toLowerCase(details.name)
      maxId == SetMax({dynamicPharmacies[i].id : i \in DOMAIN dynamicPharmacies}
                      \cup {VERIFIED_PHARMACIES_IN_BANGALORE[i].id :
                              i \in DOMAIN VERIFIED_PHARMACIES_IN_BANGALORE}
                      \cup {ID_BASELINE})
      newPharmacy == [id |-> maxId + 1, name |-> details.name,
                      address |-> details.address, phone |-> details.phone,
                      lat |-> location.lat, lon |-> location.lon,
                      distance |-> 0, price |-> 0, priceUnit |-> "",
                      stock |-> OutOfStock, isBestOption |-> FALSE]
      updated == [i \in DOMAIN dynamicPharmacies |->
                    IF toLowerCase(dynamicPharmacies[i].name) = key
                      THEN [dynamicPharmacies[i] EXCEPT
                              !.address = details.address, !.phone = details.phone,
                              !.lat = location.lat, !.lon = location.lon]
                      ELSE dynamicPharmacies[i]]
  IN IF existing > 0
       THEN [ret |-> allPharmacies[existing], stored |-> saveDynamicPharmacies(updated)]
       ELSE [ret |-> basePharmacy(newPharmacy),
             stored |-> saveDynamicPharmacies(Append(dynamicPharmacies, newPharmacy))]

registerOrGetPharmacy(stored, details, location) ==
  LET allPharmacies == getCombinedPharmacies(stored)
      existing == findExistingPharmacy(allPharmacies, details.name)
      dynamicPharmacies == getDynamicPharmacies(stored)
      maxId == SetMax({dynamicPharmacies[i].id : i \in DOMAIN dynamicPharmacies}
                      \cup {VERIFIED_PHARMACIES_IN_BANGALORE[i].id :
                              i \in DOMAIN VERIFIED_PHARMACIES_IN_BANGALORE}
                      \cup {ID_BASELINE})
      newPharmacy == [id |-> maxId + 1, name |-> details.name,
                      address |-> details.address, phone |-> details.phone,
                      lat |-> location.lat, lon |-> location.lon,
                      distance |-> 0, price |-> 0, priceUnit |-> "",
                      stock |-> OutOfStock, isBestOption |-> FALSE]
  IN IF existing > 0
       THEN [ret |-> allPharmacies[existing], stored |-> stored]
       ELSE [ret |-> basePharmacy(newPharmacy),
             stored |-> saveDynamicPharmacies(Append(dynamicPharmacies, newPharmacy))]

----------------------------------------------------------------------------
(* Search engine *)

\* results.slice(0, 10)
MAX_RESULTS == 10
\* p.price < bestOption.price + 10
PRICE_TOLERANCE == 10
\* p.distance < bestOption.distance + 2 (km), in tenths of a km
DISTANCE_TOLERANCE == 20

\* Faulty variant: a pharmacy without a record of the medicine is taken to
\* have it in stock.
enrichPharmacy_DefaultsInStock(pharmacy, pharmaciesWithStock, userLocation) ==
  LET entry == findPharmacyEntryIndex(pharmaciesWithStock, pharmacy.id)
      hasEntry == entry > 0
      lastEntry == SetMax({i \in DOMAIN pharmaciesWithStock :
                             pharmaciesWithStock[i].pharmacyId = pharmacy.id})
  IN [id |-> pharmacy.id, name |-> pharmacy.name, address |-> pharmacy.address,
      phone |-> pharmacy.phone, lat |-> pharmacy.lat, lon |-> pharmacy.lon,
      distance |-> haversineDistance(userLocation, pharmacy),
      price |-> IF hasEntry THEN pharmaciesWithStock[lastEntry].price ELSE 0,
      priceUnit |-> IF hasEntry THEN "per strip" ELSE "-",
      stock |-> IF hasEntry THEN pharmaciesWithStock[lastEntry].stock ELSE InStock,
      isBestOption |-> FALSE]

\* step 2 of findNearbyPharmacies: allPharmacies.map(...)
enrichPharmacy(pharmacy, pharmaciesWithStock, userLocation) ==
  LET entry == findPharmacyEntryIndex(pharmaciesWithStock, pharmacy.id)
      hasEntry == entry > 0
      \* new Map(pairs): a later pair with the same key overwrites an earlier one
      lastEntry == SetMax({i \in DOMAIN pharmaciesWithStock :
                             pharmaciesWithStock[i].pharmacyId = pharmacy.id})
  IN [id |-> pharmacy.id, name |-> pharmacy.name, address |-> pharmacy.address,
      phone |-> pharmacy.phone, lat |-> pharmacy.lat, lon |-> pharmacy.lon,
      distance |-> haversineDistance(userLocation, pharmacy),
      price |-> IF hasEntry THEN pharmaciesWithStock[lastEntry].price ELSE 0,
      priceUnit |-> IF hasEntry THEN "per strip" ELSE "-",
      stock |-> IF hasEntry THEN pharmaciesWithStock[lastEntry].stock ELSE OutOfStock,
      isBestOption |-> FALSE]

\* Faulty variant: an element goes before the elements of equal distance.
insertByDistance_Before(sorted, x) ==
  LET n == Cardinality({i \in DOMAIN sorted : sorted[i].distance < x.distance})
  IN SubSeq(sorted, 1, n) \o <<x>> \o SubSeq(sorted, n + 1, Len(sorted))

\* Where a stable ascending sort places x among the already sorted elements:
\* after every element whose distance is not greater.
insertByDistance(sorted, x) ==
  LET n == Cardinality({i \in DOMAIN sorted : sorted[i].distance <= x.distance})
  IN SubSeq(sorted, 1, n) \o <<x>> \o SubSeq(sorted, n + 1, Len(sorted))

\* The sort with the first Len(sorted) elements of pharmacies already in
\* place in sorted: the remaining ones are inserted in their order.
RECURSIVE insertRemaining(_, _)
insertRemaining(sorted, pharmacies) ==
  IF Len(sorted) = Len(pharmacies)
    THEN sorted
    ELSE insertRemaining(insertByDistance(sorted, pharmacies[Len(sorted) + 1]),
                         pharmacies)

\* Array.prototype.sort((a, b) => a.distance - b.distance), which is stable.
sortByDistance(pharmacies) == insertRemaining(<<>>, pharmacies)

\* Faulty variant: the second rule takes a pharmacy that is less than 10 dearer.
replacesBestOption_Dearer(p, bestOption) ==
  \/ p.distance < bestOption.distance /\ p.price < bestOption.price + PRICE_TOLERANCE
  \/ /\ p.price < bestOption.price + PRICE_TOLERANCE
     /\ p.distance < bestOption.distance + DISTANCE_TOLERANCE

\* Faulty variant: the first rule also takes a pharmacy at the same distance.
replacesBestOption_TiesCloser(p, bestOption) ==
  \/ p.distance <= bestOption.distance /\ p.price < bestOption.price + PRICE_TOLERANCE
  \/ p.price < bestOption.price /\ p.distance < bestOption.distance + DISTANCE_TOLERANCE

\* Faulty variant: a cheaper pharmacy wins however far it is.
replacesBestOption_AnyCheaper(p, bestOption) ==
  \/ p.distance < bestOption.distance /\ p.price < bestOption.price + PRICE_TOLERANCE
  \/ p.price < bestOption.price

\* The test of results.forEach in step 4: does p replace bestOption?
replacesBestOption(p, bestOption) ==
  \/ p.distance < bestOption.distance /\ p.price < bestOption.price + PRICE_TOLERANCE
  \/ p.price < bestOption.price /\ p.distance < bestOption.distance + DISTANCE_TOLERANCE

\* results.forEach of step 4 from element i on; bestOption is an index into
\* results, 0 for null.
RECURSIVE selectBestOption(_, _, _)
selectBestOption(results, i, bestOption) ==
  IF i > Len(results)
    THEN bestOption
    ELSE selectBestOption(results, i + 1,
           IF bestOption = 0 THEN i
           ELSE IF replacesBestOption(results[i], results[bestOption]) THEN i
           ELSE bestOption)

\* results.findIndex(p => p.id === bestOption.id), 1-based; 0: none
findBestOptionIndex(results, id) ==
  LET found == {i \in DOMAIN results : results[i].id = id}
  IN IF found = {} THEN 0 ELSE SetMin(found)

\* Faulty variant: the filter drops only OutOfStock.
isAvailable_NotOut(p) == p.stock # OutOfStock

\* The predicate of nearbyPharmacies.filter in step 3.
isAvailable(p) == p.stock = InStock

\* Faulty variant: the list is not truncated.
sliceResults_All(availablePharmacies) == availablePharmacies

\* availablePharmacies.slice(0, 10)
sliceResults(availablePharmacies) ==
  SubSeq(availablePharmacies, 1,
         IF Len(availablePharmacies) < MAX_RESULTS
           THEN Len(availablePharmacies) ELSE MAX_RESULTS)

\* Faulty variant: the index test is off by one (> 0 in the code's 0-based terms).
markBestOption_OffByOne(results, bestOptionIndex) ==
  IF bestOptionIndex > 1
    THEN [results EXCEPT ![bestOptionIndex].isBestOption = TRUE]
    ELSE results

\* if (bestOptionIndex > -1) results[bestOptionIndex].isBestOption = true
markBestOption(results, bestOptionIndex) ==
  IF bestOptionIndex > 0
    THEN [results EXCEPT ![bestOptionIndex].isBestOption = TRUE]
    ELSE results

\* The list findNearbyPharmacies(userLocation, medicineName) resolves to when
\* its timer fires with the two stored values as given.
findNearbyPharmacies(storedInventory, storedDynamic, userLocation, medicineName) ==
  LET pharmaciesWithStock == getPharmaciesForMedicine(storedInventory, medicineName)
      allPharmacies == getCombinedPharmacies(storedDynamic)
      allPharmaciesWithDetails ==
        [i \in DOMAIN allPharmacies |->
           enrichPharmacy(allPharmacies[i], pharmaciesWithStock, userLocation)]
      nearbyPharmacies == sortByDistance(allPharmaciesWithDetails)
      availablePharmacies == SelectSeq(nearbyPharmacies, isAvailable)
      results == sliceResults(availablePharmacies)
      bestOption == selectBestOption(results, 1, 0)
  IN IF bestOption = 0
       THEN results
       ELSE markBestOption(results, findBestOptionIndex(results, results[bestOption].id))

----------------------------------------------------------------------------
(* Inputs *)

Dolo == <<"D", "o", "l", "o">>
dolo == <<"d", "o", "l", "o">>
Ibu == <<"I", "b", "u">>
ibu == <<"i", "b", "u">>

MedicineNames == {Dolo, dolo, Ibu}
\* The names searched for
SearchNames == {Dolo, Ibu}

Item(medicineName, price, stock) ==
  [medicineName |-> medicineName, price |-> price, stock |-> stock]

\* The calls that stocked the store in earlier sessions: pharmacy id, items.
StockingCalls ==
  << <<34, <<Item(Dolo, 45, InStock), Item(Ibu, 1, OutOfStock)>> >>,
     <<26, <<Item(Dolo, 45, InStock), Item(Ibu, 40, InStock)>> >>,
     <<27, <<Item(Dolo, 50, InStock), Item(Ibu, 50, InStock)>> >>,
     <<25, <<Item(Dolo, 48, InStock)>> >>,
     <<21, <<Item(Dolo, 30, InStock)>> >>,
     <<28, <<Item(Dolo, 30, InStock)>> >>,
     <<30, <<Item(Dolo, 30, InStock)>> >>,
     <<22, <<Item(Dolo, 20, LowStock), Item(Ibu, 5, LowStock)>> >>,
     <<31, <<Item(Dolo, 25, InStock)>> >>,
     <<29, <<Item(Dolo, 60, InStock)>> >>,
     <<23, <<Item(Dolo, 35, InStock)>> >>,
     <<32, <<Item(Dolo, 38, InStock)>> >>,
     <<33, <<Item(Dolo, 36, InStock)>> >>,
     <<24, <<Item(Dolo, 10, OutOfStock), Item(Ibu, 100, InStock)>> >>,
     <<18, <<Item(Dolo, 33, InStock)>> >> >>

RECURSIVE afterCalls(_, _)
afterCalls(stored, calls) ==
  IF calls = <<>>
    THEN stored
    ELSE afterCalls(updateGlobalInventory(stored, Head(calls)[1], Head(calls)[2]),
                    Tail(calls))

\* The inventory a browser holds after the first five and after the first
\* ten of StockingCalls, starting from nothing.
StockedByFive == afterCalls(NullItem, SubSeq(StockingCalls, 1, 5))
StockedByTen == afterCalls(StockedByFive, SubSeq(StockingCalls, 6, 10))

\* The inventory a browser holds after all of StockingCalls.
StockedStore == afterCalls(StockedByTen, SubSeq(StockingCalls, 11, Len(StockingCalls)))

\* Pharmacy ids of the owners that act: a seed pharmacy and the first id the
\* registrar hands out.
PharmacyIds == {27, 1001}

UpsertBatches ==
  { <<>>,
    <<Item(Dolo, 40, InStock)>>,
    <<Item(dolo, 55, LowStock)>>,
    <<Item(Ibu, 30, Undefined)>>,
    <<Item(Dolo, 40, OutOfStock), Item(dolo, 60, Undefined)>>,
    <<Item(Ibu, 45, InStock), Item(Dolo, 35, InStock)>> }

NewStatuses == {InStock, LowStock}

UserLocations == {[lat |-> 129380, lon |-> 775220], [lat |-> 129020, lon |-> 775580]}

Owner(name, phone, address) == [name |-> name, phone |-> phone, address |-> address]

\* <<details, location>> of the owners that log in
Registrations ==
  { <<Owner(<<"N", "e", "w", " ", "C", "a", "r", "e">>, "080-1111", "RR Nagar"),
      [lat |-> 129300, lon |-> 775200]>>,
    <<Owner(<<"N", "E", "W", " ", "C", "A", "R", "E">>, "080-2222", "Uttarahalli"),
      [lat |-> 129100, lon |-> 775500]>>,
    <<Owner(<<"Z", "e", "n">>, "080-3333", "Uttarahalli"),
      [lat |-> 129100, lon |-> 775500]>>,
    <<Owner(<<"m", "e", "d", "p", "l", "u", "s", " ", "p", "h", "a", "r", "m", "a", "c", "y">>,
            "080-4444", "RR Nagar"),
      [lat |-> 129300, lon |-> 775200]>> }

----------------------------------------------------------------------------
(* State machine *)

Before == [inventory |-> inventoryStore, dynamic |-> dynamicStore]

\* PharmacyOwnerPage with nobody logged in: useState(null), useState([])
LoggedOut == [owner |-> 0, inventory |-> <<>>, stored |-> NullItem, uploads |-> <<>>]

\* History: every pending search has now also seen the stored values
\* inventory and dynamic.
Observed(inventory, dynamic) ==
  [i \in DOMAIN pending |->
     [pending[i] EXCEPT !.seen = @ \cup {[inventory |-> inventory, dynamic |-> dynamic]}]]

\* What earlier sessions of the browser can have left behind: nothing; a
\* stocked inventory; a stocked inventory and a registered pharmacy that has
\* stocked a medicine too. Each is built by the calls that lead to it.
FirstRegistration ==
  <<Owner(<<"N", "e", "w", " ", "C", "a", "r", "e">>, "080-1111", "RR Nagar"),
    [lat |-> 129300, lon |-> 775200]>>

FirstRegistered ==
  registerOrGetPharmacy(NullItem, FirstRegistration[1], FirstRegistration[2])

EarlierSessions ==
  { [inventory |-> NullItem, dynamic |-> NullItem, registry |-> [k \in {} |-> 0]],
    [inventory |-> StockedStore, dynamic |-> NullItem, registry |-> [k \in {} |-> 0]],
    [inventory |-> updateGlobalInventory(StockedStore, FirstRegistered.ret.id,
                                         <<Item(Dolo, 44, InStock)>>),
     dynamic |-> FirstRegistered.stored,
     registry |-> (toLowerCase(FirstRegistration[1].name) :> FirstRegistered.ret.id)] }

Init ==
  /\ \E s \in EarlierSessions :
       /\ inventoryStore = s.inventory
       /\ dynamicStore = s.dynamic
       /\ registry = s.registry
  /\ last = [op |-> "none"]
  /\ nops = 0
  /\ pending = <<>>
  /\ page = LoggedOut

\* upsert: updateGlobalInventory(pharmacyId, items)
Upsert(pharmacyId, items) ==
  /\ nops < MaxOps
  /\ inventoryStore' = updateGlobalInventory(inventoryStore, pharmacyId, items)
  /\ last' = [op |-> "upsert", pharmacyId |-> pharmacyId, items |-> items,
              before |-> Before]
  /\ nops' = nops + 1
  /\ UNCHANGED <<dynamicStore, registry>>
  /\ pending' = Observed(inventoryStore', dynamicStore')
  /\ UNCHANGED page

\* updateStock: updateStockStatusInGlobalInventory(pharmacyId, medicineName, stock)
UpdateStock(pharmacyId, medicineName, stock) ==
  /\ nops < MaxOps
  /\ inventoryStore' =
       updateStockStatusInGlobalInventory(inventoryStore, pharmacyId, medicineName, stock)
  /\ last' = [op |-> "updateStock", pharmacyId |-> pharmacyId,
              medicineName |-> medicineName, stock |-> stock, before |-> Before]
  /\ nops' = nops + 1
  /\ UNCHANGED <<dynamicStore, registry>>
  /\ pending' = Observed(inventoryStore', dynamicStore')
  /\ UNCHANGED page

\* remove: deleteFromGlobalInventory(pharmacyId, medicineName)
Remove(pharmacyId, medicineName) ==
  /\ nops < MaxOps
  /\ inventoryStore' = deleteFromGlobalInventory(inventoryStore, pharmacyId, medicineName)
  /\ last' = [op |-> "remove", pharmacyId |-> pharmacyId,
              medicineName |-> medicineName, before |-> Before]
  /\ nops' = nops + 1
  /\ UNCHANGED <<dynamicStore, registry>>
  /\ pending' = Observed(inventoryStore', dynamicStore')
  /\ UNCHANGED page

\* registerOrGet: registerOrGetPharmacy(details, location); the function has
\* no await, so the call runs to its return in one turn of the event loop.
RegisterOrGet(details, location) ==
  LET r == registerOrGetPharmacy(dynamicStore, details, location)
      key == toLowerCase(details.name)
  IN /\ nops < MaxOps
     /\ dynamicStore' = r.stored
     /\ last' = [op |-> "registerOrGet", details |-> details, location |-> location,
                 ret |-> r.ret, known |-> key \in DOMAIN registry, before |-> Before]
     /\ registry' = IF key \in DOMAIN registry THEN registry
                    ELSE registry @@ (key :> r.ret.id)
     /\ nops' = nops + 1
     /\ UNCHANGED inventoryStore
     /\ pending' = Observed(inventoryStore', dynamicStore')
     /\ UNCHANGED page

\* Faulty variant: the search writes the inventory map and the dynamic list
\* back after reading them.
FindNearby_Saves(userLocation, medicineName) ==
  /\ last' = [op |-> "findNearby", userLocation |-> userLocation,
              medicineName |-> medicineName,
              ret |-> findNearbyPharmacies(inventoryStore, dynamicStore,
                                           userLocation, medicineName),
              before |-> Before]
  /\ inventoryStore' = saveGlobalInventory(getGlobalInventory(inventoryStore))
  /\ dynamicStore' = saveDynamicPharmacies(getDynamicPharmacies(dynamicStore))
  /\ UNCHANGED <<registry, nops, pending, page>>

\* findNearby: the timer callback of findNearbyPharmacies(userLocation,
\* medicineName). The call itself only starts the timer: every read of the
\* store and the whole computation happen when the timer fires.
FindNearby(userLocation, medicineName) ==
  /\ last' = [op |-> "findNearby", userLocation |-> userLocation,
              medicineName |-> medicineName,
              ret |-> findNearbyPharmacies(inventoryStore, dynamicStore,
                                           userLocation, medicineName),
              before |-> Before]
  /\ UNCHANGED <<inventoryStore, dynamicStore, registry, nops, pending, page>>

Next ==
  \/ \E pharmacyId \in PharmacyIds, items \in UpsertBatches : Upsert(pharmacyId, items)
  \/ \E pharmacyId \in PharmacyIds, medicineName \in MedicineNames, stock \in NewStatuses :
       UpdateStock(pharmacyId, medicineName, stock)
  \/ \E pharmacyId \in PharmacyIds, medicineName \in MedicineNames :
       Remove(pharmacyId, medicineName)
  \/ \E reg \in Registrations : RegisterOrGet(reg[1], reg[2])
  \/ \E userLocation \in UserLocations, medicineName \in SearchNames :
       FindNearby(userLocation, medicineName)

Spec == Init /\ [][Next]_vars

----------------------------------------------------------------------------
(* Properties of the search (findNearby)                                   *)

Searched == last.op = "findNearby"

\* The directory and the inventory records a search reads. A search changes
\* neither stored value, so they are the ones of the state it ends in.
Directory == getCombinedPharmacies(dynamicStore)
RecordsFor(medicineName) ==
  LET inventory == getGlobalInventory(inventoryStore)
      key == toLowerCase(medicineName)
  IN IF key \in DOMAIN inventory
       THEN {inventory[key][i] : i \in DOMAIN inventory[key]}
       ELSE {}

\* Positions in the directory dir of the pharmacies that hold the medicine
\* in stock according to the set of records recs.
Qualifying(dir, recs) ==
  {i \in DOMAIN dir : \E r \in recs : r.pharmacyId = dir[i].id /\ r.stock = InStock}

\* Position of directory entry i among the qualifying ones q, by distance to
\* userLocation and then by directory position.
Rank(i, q, dir, userLocation) ==
  LET d == [j \in q |-> haversineDistance(userLocation, dir[j])]
  IN 1 + Cardinality({j \in q : d[j] < d[i] \/ (d[j] = d[i] /\ j < i)})

Flagged(results) == {i \in DOMAIN results : results[i].isBestOption}

\* C1: every result of findNearby has stock = InStock, and it is a pharmacy
\* whose inventory record under the lower-cased medicine name is InStock: a
\* pharmacy with a LowStock or OutOfStock record, or with no record, is never
\* returned.
C1_OnlyInStock ==
  Searched =>
    LET recs == RecordsFor(last.medicineName)
    IN \A i \in DOMAIN last.ret :
         /\ last.ret[i].stock = InStock
         /\ \E r \in recs : r.pharmacyId = last.ret[i].id
         /\ \A r \in recs : r.pharmacyId = last.ret[i].id => r.stock = InStock

\* A search that returned something while the directory held a pharmacy with
\* a LowStock record, one with an OutOfStock record and one with no record.
C1_Witness ==
  /\ Searched
  /\ last.ret # <<>>
  /\ LET recs == RecordsFor(last.medicineName)
         ids == {Directory[i].id : i \in DOMAIN Directory}
     IN /\ \E r \in recs : r.stock = LowStock /\ r.pharmacyId \in ids
        /\ \E r \in recs : r.stock = OutOfStock /\ r.pharmacyId \in ids
        /\ \E id \in ids : \A r \in recs : r.pharmacyId # id

\* C2: findNearby returns at most 10 results: as many as qualify, up to 10,
\* and they are the first of the qualifying pharmacies in distance order.
C2_AtMostTen ==
  Searched =>
    LET dir == Directory
        q == Qualifying(dir, RecordsFor(last.medicineName))
    IN /\ Len(last.ret) <= 10
       /\ Len(last.ret) = IF Cardinality(q) > 10 THEN 10 ELSE Cardinality(q)
       /\ \A i \in q :
            LET k == Rank(i, q, dir, last.userLocation)
            IN k <= 10 => last.ret[k].id = dir[i].id

\* A search for a medicine that more than 10 directory pharmacies hold in stock.
C2_Witness ==
  /\ Searched
  /\ Cardinality(Qualifying(Directory, RecordsFor(last.medicineName))) > 10
  /\ Len(last.ret) = 10

DirectoryIndex(dir, id) == CHOOSE i \in DOMAIN dir : dir[i].id = id

\* C3: the results are in ascending order of distance, and two results at the
\* same distance are in the order of listAll().
C3_SortedStable ==
  Searched =>
    LET dir == Directory
        at == [a \in DOMAIN last.ret |-> DirectoryIndex(dir, last.ret[a].id)]
    IN \A a, b \in DOMAIN last.ret :
         a < b =>
           /\ last.ret[a].distance <= last.ret[b].distance
           /\ last.ret[a].distance = last.ret[b].distance => at[a] < at[b]

\* A search with two results at the same distance whose inventory records
\* are stored in the opposite of their directory order.
C3_Witness ==
  /\ Searched
  /\ LET records == getPharmaciesForMedicine(inventoryStore, last.medicineName)
     IN \E a, b \in DOMAIN last.ret :
          /\ a < b
          /\ last.ret[a].distance = last.ret[b].distance
          /\ findPharmacyEntryIndex(records, last.ret[b].id)
               < findPharmacyEntryIndex(records, last.ret[a].id)

\* The reduction as the specification states it: best starts at results[1];
\* a later candidate p replaces it iff rule (a) or rule (b) holds.
RECURSIVE ReductionFrom(_, _, _)
ReductionFrom(results, k, best) ==
  IF k > Len(results)
    THEN best
    ELSE LET p == results[k]
             b == results[best]
             ruleA == p.distance < b.distance /\ p.price < b.price + 10
             ruleB == p.price < b.price /\ p.distance < b.distance + 20
         IN ReductionFrom(results, k + 1, IF ruleA \/ ruleB THEN k ELSE best)

DistancesAndPrices(results) ==
  [i \in DOMAIN results |-> <<results[i].distance, results[i].price>>]

\* A (1.0 km, 50), B (1.5 km, 40), C (5.0 km, 100)
ExampleABC == << <<10, 50>>, <<15, 40>>, <<50, 100>> >>

\* C4: the result flagged isBestOption is the outcome of the left-to-right
\* reduction over the returned list; for A(1.0, 50), B(1.5, 40), C(5.0, 100)
\* only B is flagged.
C4_BestIsReduction ==
  (Searched /\ last.ret # <<>>) =>
    /\ Flagged(last.ret) = {ReductionFrom(last.ret, 2, 1)}
    /\ DistancesAndPrices(last.ret) = ExampleABC => Flagged(last.ret) = {2}

\* The search of the example: A, B and C are returned.
C4_Witness ==
  /\ Searched
  /\ DistancesAndPrices(last.ret) = ExampleABC

\* C5: the number of flagged results is 0 for an empty list and 1 otherwise.
C5_OneBestOption ==
  Searched =>
    Cardinality(Flagged(last.ret)) = IF last.ret = <<>> THEN 0 ELSE 1

\* A search with several results of which the nearest is the flagged one.
C5_Witness ==
  /\ Searched
  /\ Len(last.ret) > 1
  /\ Flagged(last.ret) = {1}

----------------------------------------------------------------------------
(* Properties of the inventory store                                       *)

Inventory == getGlobalInventory(inventoryStore)
InventoryBefore == getGlobalInventory(last.before.inventory)

\* Positions of the records of pharmacyId in a list of records.
EntriesOf(entries, pharmacyId) ==
  {i \in DOMAIN entries : entries[i].pharmacyId = pharmacyId}

\* Every spelling of a medicine name that the model's inputs use.
Spellings == MedicineNames \cup {ibu, <<"D", "O", "L", "O">>, <<"I", "B", "U">>}

\* C6: after any sequence of upsert, updateStock and remove calls, the list
\* of a medicine key holds at most one record per pharmacyId.
C6_OneRecordPerPharmacy ==
  \A k \in DOMAIN Inventory :
    \A i, j \in DOMAIN Inventory[k] :
      Inventory[k][i].pharmacyId = Inventory[k][j].pharmacyId => i = j

\* An upsert whose batch names one medicine twice, in different letter case,
\* for a pharmacy that had a record of that medicine already.
C6_Witness ==
  /\ last.op = "upsert"
  /\ \E a, b \in DOMAIN last.items :
       /\ a # b
       /\ last.items[a].medicineName # last.items[b].medicineName
       /\ toLowerCase(last.items[a].medicineName) = toLowerCase(last.items[b].medicineName)
       /\ LET key == toLowerCase(last.items[a].medicineName)
          IN /\ key \in DOMAIN InventoryBefore
             /\ EntriesOf(InventoryBefore[key], last.pharmacyId) # {}
             /\ Len(Inventory[key]) > 1

\* C7: after upsert(pid, [{X, P, S}]), the lookup of any spelling of X holds
\* exactly one record of pid, with price P and stock S; when pid had a record
\* of X before, the list has not grown.
C7_UpsertThenLookup ==
  (last.op = "upsert" /\ Len(last.items) = 1 /\ last.items[1].stock \in StockStatus) =>
    LET item == last.items[1]
        key == toLowerCase(item.medicineName)
    IN \A spelling \in Spellings :
         toLowerCase(spelling) = key =>
           LET found == getPharmaciesForMedicine(inventoryStore, spelling)
               mine == EntriesOf(found, last.pharmacyId)
           IN /\ Cardinality(mine) = 1
              /\ \A i \in mine : found[i].price = item.price /\ found[i].stock = item.stock
              /\ (key \in DOMAIN InventoryBefore
                    /\ EntriesOf(InventoryBefore[key], last.pharmacyId) # {})
                   => Len(found) = Len(InventoryBefore[key])

\* An upsert of one item for a pharmacy whose record of that medicine had
\* another price.
C7_Witness ==
  /\ last.op = "upsert"
  /\ Len(last.items) = 1
  /\ last.items[1].stock \in StockStatus
  /\ LET key == toLowerCase(last.items[1].medicineName)
     IN /\ key \in DOMAIN InventoryBefore
        /\ key # last.items[1].medicineName
        /\ \E i \in EntriesOf(InventoryBefore[key], last.pharmacyId) :
             InventoryBefore[key][i].price # last.items[1].price

\* C8: no medicine key of the stored map has an empty list; a remove that
\* takes the last record of a medicine deletes the key, and the lookup of the
\* medicine is then empty.
C8_NoEmptyList ==
  /\ \A k \in DOMAIN Inventory : Inventory[k] # <<>>
  /\ last.op = "remove" =>
       LET key == toLowerCase(last.medicineName)
       IN (key \in DOMAIN InventoryBefore
             /\ \A i \in DOMAIN InventoryBefore[key] :
                  InventoryBefore[key][i].pharmacyId = last.pharmacyId)
            => /\ key \notin DOMAIN Inventory
               /\ getPharmaciesForMedicine(inventoryStore, last.medicineName) = <<>>

\* A remove that took the only record of a medicine.
C8_Witness ==
  /\ last.op = "remove"
  /\ toLowerCase(last.medicineName) \in DOMAIN InventoryBefore
  /\ toLowerCase(last.medicineName) \notin DOMAIN Inventory

\* The call named a medicine and a pharmacy of which the store had no record.
NoRecordBefore ==
  LET key == toLowerCase(last.medicineName)
  IN key \in DOMAIN InventoryBefore => EntriesOf(InventoryBefore[key], last.pharmacyId) = {}

\* C9: updateStock or remove for a pharmacy that has no record under the key
\* of the medicine leaves the inventory map as it was.
C9_AbsentIsNoOp ==
  (last.op \in {"updateStock", "remove"} /\ NoRecordBefore) => Inventory = InventoryBefore

\* A remove for a medicine that other pharmacies stock and this one does not.
C9_Witness ==
  /\ last.op = "remove"
  /\ NoRecordBefore
  /\ toLowerCase(last.medicineName) \in DOMAIN InventoryBefore

----------------------------------------------------------------------------
(* Properties of the registrar                                             *)

\* C10: a registerOrGet call under a name that an earlier call used, up to
\* letter case, returns the id the first call returned and leaves the size
\* of the dynamic-pharmacy collection as it was.
C10_RegisterTwice ==
  (last.op = "registerOrGet" /\ last.known) =>
    /\ last.ret.id = registry[toLowerCase(last.details.name)]
    /\ Len(getDynamicPharmacies(dynamicStore))
         = Len(getDynamicPharmacies(last.before.dynamic))

\* A second registration of a dynamic pharmacy, spelled in another letter
\* case than the stored name, with another call made in between.
C10_Witness ==
  /\ last.op = "registerOrGet"
  /\ last.known
  /\ last.ret.id > ID_BASELINE
  /\ last.ret.name # last.details.name
  /\ nops > 1

\* The ids that registerOrGetPharmacy takes the maximum of: every seed id,
\* every id of the stored dynamic list, and the baseline.
IdsBefore ==
  {VERIFIED_PHARMACIES_IN_BANGALORE[i].id : i \in DOMAIN VERIFIED_PHARMACIES_IN_BANGALORE}
    \cup {getDynamicPharmacies(last.before.dynamic)[i].id :
            i \in DOMAIN getDynamicPharmacies(last.before.dynamic)}
    \cup {1000}

\* No pharmacy listed before the call had the name of the call, up to letter case.
NoNameMatchBefore ==
  LET listed == getCombinedPharmacies(last.before.dynamic)
  IN \A i \in DOMAIN listed :
       toLowerCase(listed[i].name) # toLowerCase(last.details.name)

\* C11: when registerOrGet finds no name match, the id of the pharmacy it
\* creates is max(seed ids, stored dynamic ids, 1000) + 1, and exactly one
\* entry, the new pharmacy, is appended to the dynamic set.
C11_NewIdIsMaxPlusOne ==
  (last.op = "registerOrGet" /\ NoNameMatchBefore) =>
    LET stored == getDynamicPharmacies(dynamicStore)
        storedBefore == getDynamicPharmacies(last.before.dynamic)
    IN /\ \A id \in IdsBefore : id < last.ret.id
       /\ last.ret.id - 1 \in IdsBefore
       /\ Len(stored) = Len(storedBefore) + 1
       /\ SubSeq(stored, 1, Len(storedBefore)) = storedBefore
       /\ stored[Len(stored)].id = last.ret.id
       /\ stored[Len(stored)].name = last.details.name

\* A registration under a new name while the dynamic set held a pharmacy.
C11_Witness ==
  /\ last.op = "registerOrGet"
  /\ NoNameMatchBefore
  /\ getDynamicPharmacies(last.before.dynamic) # <<>>
  /\ last.ret.id = 1002

\* C12: every registerOrGetPharmacy call reads, allocates and writes within
\* one turn of the event loop, so the calls of concurrent tasks take effect
\* one after the other in some order: names that differ case-insensitively
\* never get the same id, and the ids of listAll() are pairwise distinct.
C12_NoDuplicateIds ==
  /\ \A k1, k2 \in DOMAIN registry : registry[k1] = registry[k2] => k1 = k2
  /\ LET dir == Directory
     IN \A i, j \in DOMAIN dir : dir[i].id = dir[j].id => i = j

\* Two registrations under new names, one after the other.
C12_Witness ==
  /\ last.op = "registerOrGet"
  /\ \E k1, k2 \in DOMAIN registry :
       k1 # k2 /\ registry[k1] > 1000 /\ registry[k2] > 1000
  /\ Len(getDynamicPharmacies(dynamicStore)) > 1

----------------------------------------------------------------------------
(* Storage faults: localStorage.setItem throws, or a key holds a text that *)
(* JSON.parse rejects                                                      *)

\* Inputs of the behaviours with storage faults
FaultyPharmacyIds == {27}

FaultyBatches ==
  { <<Item(Dolo, 40, InStock)>>,
    <<Item(Ibu, 45, InStock), Item(Dolo, 35, InStock)>> }

FaultyRegistrations ==
  { <<Owner(<<"Z", "e", "n">>, "080-3333", "Uttarahalli"),
      [lat |-> 129100, lon |-> 775500]>>,
    <<Owner(<<"m", "e", "d", "p", "l", "u", "s", " ", "p", "h", "a", "r", "m", "a", "c", "y">>,
            "080-4444", "RR Nagar"),
      [lat |-> 129300, lon |-> 775200]>> }

\* What earlier sessions can have left behind when one of the two texts has
\* been damaged since it was written.
DamagedSessions ==
  { [inventory |-> CorruptItem(StockedStore.val),
     dynamic |-> FirstRegistered.stored,
     registry |-> (toLowerCase(FirstRegistration[1].name) :> FirstRegistered.ret.id)],
    [inventory |-> updateGlobalInventory(StockedStore, FirstRegistered.ret.id,
                                         <<Item(Dolo, 44, InStock)>>),
     dynamic |-> CorruptItem(FirstRegistered.stored.val),
     registry |-> (toLowerCase(FirstRegistration[1].name) :> FirstRegistered.ret.id)] }

InitFaulty ==
  /\ \E s \in EarlierSessions \cup DamagedSessions :
       /\ inventoryStore = s.inventory
       /\ dynamicStore = s.dynamic
       /\ registry = s.registry
  /\ last = [op |-> "none"]
  /\ nops = 0
  /\ pending = <<>>
  /\ page = LoggedOut

\* updateGlobalInventory(pharmacyId, items) when setItem throws
UpsertUnwritable(pharmacyId, items) ==
  LET saved == saveGlobalInventoryUnwritable(inventoryStore)
  IN /\ nops < MaxOps
     /\ inventoryStore' = saved.stored
     /\ last' = [op |-> "upsert", pharmacyId |-> pharmacyId, items |-> items,
                 before |-> Before, writeFailed |-> TRUE, threw |-> saved.threw]
     /\ nops' = nops + 1
     /\ UNCHANGED <<dynamicStore, registry>>
     /\ pending' = Observed(inventoryStore', dynamicStore')
     /\ UNCHANGED page

\* updateStockStatusInGlobalInventory(pharmacyId, medicineName, stock) when
\* setItem throws; the function writes only when it has found the record.
UpdateStockUnwritable(pharmacyId, medicineName, stock) ==
  LET globalInventory == getGlobalInventory(inventoryStore)
      medicineKey == toLowerCase(medicineName)
      saved == saveGlobalInventoryUnwritable(inventoryStore)
  IN /\ nops < MaxOps
     /\ medicineKey \in DOMAIN globalInventory
     /\ findPharmacyEntryIndex(globalInventory[medicineKey], pharmacyId) > 0
     /\ inventoryStore' = saved.stored
     /\ last' = [op |-> "updateStock", pharmacyId |-> pharmacyId,
                 medicineName |-> medicineName, stock |-> stock, before |-> Before,
                 writeFailed |-> TRUE, threw |-> saved.threw]
     /\ nops' = nops + 1
     /\ UNCHANGED <<dynamicStore, registry>>
     /\ pending' = Observed(inventoryStore', dynamicStore')
     /\ UNCHANGED page

\* deleteFromGlobalInventory(pharmacyId, medicineName) when setItem throws
RemoveUnwritable(pharmacyId, medicineName) ==
  LET saved == saveGlobalInventoryUnwritable(inventoryStore)
  IN /\ nops < MaxOps
     /\ inventoryStore' = saved.stored
     /\ last' = [op |-> "remove", pharmacyId |-> pharmacyId,
                 medicineName |-> medicineName, before |-> Before,
                 writeFailed |-> TRUE, threw |-> saved.threw]
     /\ nops' = nops + 1
     /\ UNCHANGED <<dynamicStore, registry>>
     /\ pending' = Observed(inventoryStore', dynamicStore')
     /\ UNCHANGED page

\* registerOrGetPharmacy(details, location) when setItem throws; the function
\* writes only when no pharmacy of that name exists, and returns the new
\* pharmacy whether or not the list was saved.
RegisterOrGetUnwritable(details, location) ==
  LET r == registerOrGetPharmacy(dynamicStore, details, location)
      key == toLowerCase(details.name)
      saved == saveDynamicPharmaciesUnwritable(dynamicStore)
  IN /\ nops < MaxOps
     /\ findExistingPharmacy(getCombinedPharmacies(dynamicStore), details.name) = 0
     /\ dynamicStore' = saved.stored
     /\ last' = [op |-> "registerOrGet", details |-> details, location |-> location,
                 ret |-> r.ret, known |-> key \in DOMAIN registry, before |-> Before,
                 writeFailed |-> TRUE, threw |-> saved.threw]
     /\ registry' = IF key \in DOMAIN registry THEN registry
                    ELSE registry @@ (key :> r.ret.id)
     /\ nops' = nops + 1
     /\ UNCHANGED inventoryStore
     /\ pending' = Observed(inventoryStore', dynamicStore')
     /\ UNCHANGED page

NextFaulty ==
  \/ \E pharmacyId \in FaultyPharmacyIds, items \in FaultyBatches :
       \/ Upsert(pharmacyId, items)
       \/ UpsertUnwritable(pharmacyId, items)
  \/ \E pharmacyId \in FaultyPharmacyIds, medicineName \in SearchNames :
       \/ UpdateStock(pharmacyId, medicineName, LowStock)
       \/ UpdateStockUnwritable(pharmacyId, medicineName, LowStock)
  \/ \E pharmacyId \in FaultyPharmacyIds, medicineName \in SearchNames :
       \/ Remove(pharmacyId, medicineName)
       \/ RemoveUnwritable(pharmacyId, medicineName)
  \/ \E reg \in FaultyRegistrations :
       \/ RegisterOrGet(reg[1], reg[2])
       \/ RegisterOrGetUnwritable(reg[1], reg[2])
  \/ \E userLocation \in UserLocations, medicineName \in SearchNames :
       FindNearby(userLocation, medicineName)

SpecFaulty == InitFaulty /\ [][NextFaulty]_vars

\* The last call attempted a write and setItem threw.
WriteFailed == "writeFailed" \in DOMAIN last /\ last.writeFailed

\* C13: when the write to the store fails during upsert, updateStock, remove
\* or registerOrGet, the call ends in a failure that its caller sees.
C13_WriteFailureSurfaced == WriteFailed => last.threw

\* A registration whose write failed has returned a new pharmacy with a
\* fresh id to its caller, and the stored list does not hold it.
C13_Witness ==
  /\ WriteFailed
  /\ last.op = "registerOrGet"
  /\ last.ret.id > ID_BASELINE
  /\ dynamicStore = last.before.dynamic
  /\ \A i \in DOMAIN Directory : Directory[i].id # last.ret.id

\* C14: a call that reads a damaged text goes on with an empty collection
\* in its place and completes. On a damaged inventory text an upsert leaves
\* a map holding the batch alone, a stock update finds no record and writes
\* nothing, a removal leaves the empty map and a search returns the empty
\* list; on a damaged dynamic-pharmacy text a registration sees the seeds
\* alone and a search returns what it returns with no dynamic pharmacy.
C14_ReadFailureIsEmpty ==
  (last.op # "none" /\ ~WriteFailed) =>
    LET inventory == last.before.inventory
        dynamic == last.before.dynamic
        seedIds == {VERIFIED_PHARMACIES_IN_BANGALORE[i].id :
                      i \in DOMAIN VERIFIED_PHARMACIES_IN_BANGALORE}
    IN /\ (last.op = "upsert" /\ inventory.kind = "corrupt") =>
            inventoryStore = updateGlobalInventory(NullItem, last.pharmacyId, last.items)
       /\ (last.op = "updateStock" /\ inventory.kind = "corrupt") =>
            inventoryStore = inventory
       /\ (last.op = "remove" /\ inventory.kind = "corrupt") =>
            inventoryStore = JsonItem(EmptyInventory)
       /\ (last.op = "registerOrGet" /\ dynamic.kind = "corrupt") =>
            LET r == registerOrGetPharmacy(NullItem, last.details, last.location)
            IN /\ last.ret = r.ret
               /\ dynamicStore = IF r.stored = NullItem THEN dynamic ELSE r.stored
       /\ (last.op = "findNearby" /\ inventory.kind = "corrupt") => last.ret = <<>>
       /\ (last.op = "findNearby" /\ dynamic.kind = "corrupt") =>
            /\ \A i \in DOMAIN last.ret : last.ret[i].id \in seedIds
            /\ last.ret = findNearbyPharmacies(inventory, NullItem,
                                               last.userLocation, last.medicineName)

\* A search for a medicine that the inventory text listed in stock before
\* it was damaged returns the empty list.
C14_Witness ==
  /\ last.op = "findNearby"
  /\ last.before.inventory.kind = "corrupt"
  /\ \E r \in {last.before.inventory.val[toLowerCase(last.medicineName)][i] :
                 i \in DOMAIN last.before.inventory.val[toLowerCase(last.medicineName)]} :
       r.stock = InStock
  /\ last.ret = <<>>

----------------------------------------------------------------------------
(* Properties of the directory (listAll is getCombinedPharmacies)          *)

\* C15: no step removes or alters a pharmacy of the directory: every entry
\* that listAll() returns before a step is returned after it with the same
\* id, name, address, phone, lat and lon.
C15_NeverDeletedNorAltered ==
  [][\/ dynamicStore' = dynamicStore   \* same text, same listing
     \/ LET listed == getCombinedPharmacies(dynamicStore)
            listedAfter == getCombinedPharmacies(dynamicStore')
        IN \A i \in DOMAIN listed :
             \E j \in DOMAIN listedAfter : listedAfter[j] = listed[i]]_vars

\* A registration under the name of a registered pharmacy, in another case
\* and with another address, phone and location, has returned the pharmacy
\* as the directory still holds it.
C15_Witness ==
  /\ last.op = "registerOrGet"
  /\ last.known
  /\ last.ret.id > ID_BASELINE
  /\ last.ret.name # last.details.name
  /\ last.ret.address # last.details.address
  /\ last.ret.phone # last.details.phone
  /\ last.ret.lat # last.location.lat
  /\ \E i \in DOMAIN Directory : Directory[i] = last.ret
  /\ dynamicStore = last.before.dynamic

\* A dynamic-pharmacy list that this version of registerOrGetPharmacy did
\* not write alone (another version of the application, or the developer
\* tools of the browser) can hold any ids, the ids of seeds among them, and
\* the same id more than once.
StoredPharmacy(id, name, lat, lon) ==
  [id |-> id, name |-> name, address |-> "Kengeri", phone |-> "080-5555",
   lat |-> lat, lon |-> lon, distance |-> 0, price |-> 0, priceUnit |-> "",
   stock |-> OutOfStock, isBestOption |-> FALSE]

ForeignEntries ==
  { StoredPharmacy(1001, <<"N", "e", "w", " ", "C", "a", "r", "e">>, 129300, 775200),
    StoredPharmacy(1002, <<"A", "n", "n", "e", "x">>, 129100, 775500),
    StoredPharmacy(27, <<"A", "n", "n", "e", "x">>, 129100, 775500),
    StoredPharmacy(1, <<"Z", "e", "n">>, 129300, 775200) }

RECURSIVE ForeignLists(_)
ForeignLists(n) ==
  IF n = 0 THEN {<<>>}
  ELSE LET shorter == ForeignLists(n - 1)
       IN shorter \cup {Append(l, e) : l \in {x \in shorter : Len(x) = n - 1},
                                        e \in ForeignEntries}

InitListAll ==
  /\ inventoryStore = StockedStore
  /\ \E pharmacies \in ForeignLists(MaxDynamic) :
       dynamicStore = saveDynamicPharmacies(pharmacies)
  /\ registry = [k \in {} |-> 0]
  /\ last = [op |-> "none"]
  /\ nops = 0
  /\ pending = <<>>
  /\ page = LoggedOut

\* listAll: getCombinedPharmacies()
ListAll ==
  /\ last' = [op |-> "listAll", ret |-> getCombinedPharmacies(dynamicStore),
              before |-> Before]
  /\ UNCHANGED <<inventoryStore, dynamicStore, registry, nops, pending, page>>

NextListAll ==
  \/ ListAll
  \/ \E reg \in FaultyRegistrations : RegisterOrGet(reg[1], reg[2])

SpecListAll == InitListAll /\ [][NextListAll]_vars

\* C16: listAll() returns the seeds, in seed order, and after them the
\* stored dynamic pharmacies whose id is not the id of a seed, in stored
\* order; no entry after the seeds has the id of a seed.
C16_SeedsThenUnseededDynamic ==
  last.op = "listAll" =>
    LET seeds == VERIFIED_PHARMACIES_IN_BANGALORE
        seedIds == {seeds[i].id : i \in DOMAIN seeds}
        stored == getDynamicPharmacies(last.before.dynamic)
        kept == {k \in DOMAIN stored : stored[k].id \notin seedIds}
        place(k) == Len(seeds) + Cardinality({j \in kept : j <= k})
    IN /\ Len(last.ret) = Len(seeds) + Cardinality(kept)
       /\ \A i \in DOMAIN seeds : last.ret[i] = basePharmacy(seeds[i])
       /\ \A k \in kept : last.ret[place(k)] = basePharmacy(stored[k])
       /\ \A i \in DOMAIN last.ret : i > Len(seeds) => last.ret[i].id \notin seedIds

\* The stored list holds an entry with the id of a seed between two entries
\* with other ids, and listAll() has returned the seeds and those two.
C16_Witness ==
  /\ last.op = "listAll"
  /\ LET stored == getDynamicPharmacies(last.before.dynamic)
     IN /\ Len(stored) = 3
        /\ stored[1].id = 1002 /\ stored[2].id = 27 /\ stored[3].id = 1001
        /\ Len(last.ret) = Len(VERIFIED_PHARMACIES_IN_BANGALORE) + 2
        /\ last.ret[Len(last.ret)].id = 1001

\* C17 as the specification states it: no two pharmacies that listAll()
\* returns have names that are equal when case is ignored.
C17_NoEqualNames ==
  LET listed == Directory
  IN \A i, j \in DOMAIN listed :
       toLowerCase(listed[i].name) = toLowerCase(listed[j].name) => i = j

\* C17, amended: names are unique as far as registration goes. A dynamic
\* pharmacy of listAll() shares its name, case ignored, with no other
\* pharmacy of listAll(); pharmacies with equal names are both seeds.
C17_RegisteredNamesUnique ==
  LET listed == Directory
      seeds == DOMAIN VERIFIED_PHARMACIES_IN_BANGALORE
  IN \A j \in DOMAIN listed \ seeds :
       LET lowerName == toLowerCase(listed[j].name)
       IN \A i \in DOMAIN listed : toLowerCase(listed[i].name) = lowerName => i = j

\* With registered pharmacies in the directory, a registration under the
\* name of a seed, in another case, has returned that seed and has added
\* nothing.
C17_Witness ==
  /\ last.op = "registerOrGet"
  /\ Len(Directory) > Len(VERIFIED_PHARMACIES_IN_BANGALORE)
  /\ \E i \in DOMAIN VERIFIED_PHARMACIES_IN_BANGALORE :
       /\ last.ret = basePharmacy(VERIFIED_PHARMACIES_IN_BANGALORE[i])
       /\ last.ret.name # last.details.name
  /\ dynamicStore = last.before.dynamic

----------------------------------------------------------------------------
(* Frame and atomicity *)

\* C18: a search leaves the stored inventory map and the stored
\* dynamic-pharmacy list as they were when it read them.
C18_SearchLeavesStore ==
  Searched => /\ inventoryStore = last.before.inventory
              /\ dynamicStore = last.before.dynamic

\* A search that has returned pharmacies and flagged one of them, on a
\* browser in which nothing had been registered (the key of the dynamic
\* list is still absent).
C18_Witness ==
  /\ Searched
  /\ Flagged(last.ret) # {}
  /\ inventoryStore = last.before.inventory
  /\ inventoryStore.kind = "json"
  /\ dynamicStore = NullItem

\* The record that the stored map holds for the last upsert's pharmacy under
\* the key of item k of its batch carries the price and stock of the last
\* item of the batch that has this key.
BatchItemVisible(k) ==
  LET inventory == Inventory
      key == toLowerCase(last.items[k].medicineName)
      final == last.items[SetMax({j \in DOMAIN last.items :
                                    toLowerCase(last.items[j].medicineName) = key})]
  IN /\ key \in DOMAIN inventory
     /\ \E i \in EntriesOf(inventory[key], last.pharmacyId) :
          /\ inventory[key][i].price = final.price
          /\ inventory[key][i].stock = IF final.stock = Undefined THEN InStock
                                       ELSE final.stock

\* C19: an upsert changes the stored map in one step, after the whole batch:
\* the state it leaves, which is what any later lookup or search reads,
\* shows every item of the batch or is the state before it.
C19_BatchAtomic ==
  last.op = "upsert" =>
    \/ inventoryStore = last.before.inventory
    \/ \A k \in DOMAIN last.items : BatchItemVisible(k)

\* An upsert of two items with different keys, neither of which the
\* pharmacy had a record of: both are in the stored map.
C19_Witness ==
  /\ last.op = "upsert"
  /\ Len(last.items) = 2
  /\ toLowerCase(last.items[1].medicineName) # toLowerCase(last.items[2].medicineName)
  /\ \A k \in DOMAIN last.items :
       /\ BatchItemVisible(k)
       /\ LET key == toLowerCase(last.items[k].medicineName)
          IN key \in DOMAIN InventoryBefore
               => EntriesOf(InventoryBefore[key], last.pharmacyId) = {}

----------------------------------------------------------------------------
(* Pending searches: findNearbyPharmacies returns a promise and does all   *)
(* its reading in a timer callback, so other calls run between the call    *)
(* and the callback                                                        *)

\* Inputs of the behaviours with pending searches
AsyncPharmacyIds == {27}

AsyncBatches == {<<Item(Dolo, 40, InStock)>>}

AsyncRegistrations == {FirstRegistration}

\* What earlier sessions have left behind: a registered pharmacy that has
\* stocked a medicine, or the stock of a pharmacy whose registration is not
\* in the stored list.
AsyncSessions ==
  { [inventory |-> updateGlobalInventory(StockedStore, FirstRegistered.ret.id,
                                         <<Item(Dolo, 44, InStock)>>),
     dynamic |-> FirstRegistered.stored,
     registry |-> (toLowerCase(FirstRegistration[1].name) :> FirstRegistered.ret.id)],
    [inventory |-> updateGlobalInventory(StockedStore, FirstRegistered.ret.id,
                                         <<Item(Dolo, 44, InStock)>>),
     dynamic |-> NullItem,
     registry |-> [k \in {} |-> 0]] }

InitAsync ==
  /\ \E s \in AsyncSessions :
       /\ inventoryStore = s.inventory
       /\ dynamicStore = s.dynamic
       /\ registry = s.registry
  /\ last = [op |-> "none"]
  /\ nops = 0
  /\ pending = <<>>
  /\ page = LoggedOut

\* findNearbyPharmacies(userLocation, medicineName) up to its return: the
\* promise is created and the timer is started; nothing is read.
SearchCall(userLocation, medicineName) ==
  /\ Len(pending) < MaxPending
  /\ pending' = Append(pending, [userLocation |-> userLocation,
                                 medicineName |-> medicineName,
                                 called |-> Before, seen |-> {Before}])
  /\ UNCHANGED <<inventoryStore, dynamicStore, last, registry, nops, page>>

\* Faulty variant: the directory is the one of the instant of the call, the
\* inventory the one of the instant the timer fires.
TimerFires_StaleDirectory ==
  /\ pending # <<>>
  /\ LET search == Head(pending)
     IN last' = [op |-> "findNearby", userLocation |-> search.userLocation,
                 medicineName |-> search.medicineName,
                 ret |-> findNearbyPharmacies(inventoryStore, search.called.dynamic,
                                              search.userLocation, search.medicineName),
                 before |-> Before, called |-> search.called, seen |-> search.seen]
  /\ pending' = Tail(pending)
  /\ UNCHANGED <<inventoryStore, dynamicStore, registry, nops, page>>

\* The timer callback of the oldest pending search (the timers have the same
\* delay, so they fire in the order of the calls): it reads the directory
\* and the inventory, computes the result and resolves the promise.
TimerFires ==
  /\ pending # <<>>
  /\ LET search == Head(pending)
     IN last' = [op |-> "findNearby", userLocation |-> search.userLocation,
                 medicineName |-> search.medicineName,
                 ret |-> findNearbyPharmacies(inventoryStore, dynamicStore,
                                              search.userLocation, search.medicineName),
                 before |-> Before, called |-> search.called, seen |-> search.seen]
  /\ pending' = Tail(pending)
  /\ UNCHANGED <<inventoryStore, dynamicStore, registry, nops, page>>

NextAsync ==
  \/ \E pharmacyId \in AsyncPharmacyIds, items \in AsyncBatches : Upsert(pharmacyId, items)
  \/ \E pharmacyId \in AsyncPharmacyIds : UpdateStock(pharmacyId, Ibu, LowStock)
  \/ \E pharmacyId \in AsyncPharmacyIds : Remove(pharmacyId, Ibu)
  \/ \E reg \in AsyncRegistrations : RegisterOrGet(reg[1], reg[2])
  \/ \E userLocation \in UserLocations, medicineName \in SearchNames :
       SearchCall(userLocation, medicineName)
  \/ TimerFires

SpecAsync == InitAsync /\ [][NextAsync]_vars

\* C20: the list a search resolves with is the list that the search steps
\* yield from the inventory map and the dynamic-pharmacy list as they stood
\* together at one instant between the call and the resolution.
C20_OneSnapshot ==
  (last.op = "findNearby" /\ "seen" \in DOMAIN last) =>
    \E snapshot \in last.seen :
      last.ret = findNearbyPharmacies(snapshot.inventory, snapshot.dynamic,
                                      last.userLocation, last.medicineName)

\* While the search was pending a registration changed the dynamic list and
\* an upsert then changed the inventory map, and the list the search
\* resolved with differs from the list of each earlier instant.
C20_Witness ==
  /\ last.op = "findNearby"
  /\ "seen" \in DOMAIN last
  /\ last.before.inventory # last.called.inventory
  /\ last.before.dynamic # last.called.dynamic
  /\ [inventory |-> last.called.inventory, dynamic |-> last.before.dynamic] \in last.seen
  /\ \A snapshot \in last.seen \ {last.before} :
       last.ret # findNearbyPharmacies(snapshot.inventory, snapshot.dynamic,
                                       last.userLocation, last.medicineName)

----------------------------------------------------------------------------
(* Further properties of the search and of the inventory store *)

\* C21: a search for a medicine whose key holds no record in the inventory
\* map returns the empty list, for every directory and every user location.
C21_NoRecordsNoResults ==
  Searched => (RecordsFor(last.medicineName) = {} => last.ret = <<>>)

\* A search for a medicine without records, in a store that holds records
\* of another medicine and a directory that holds a registered pharmacy.
C21_Witness ==
  /\ Searched
  /\ toLowerCase(last.medicineName) \notin DOMAIN Inventory
  /\ DOMAIN Inventory # {}
  /\ Len(Directory) > Len(VERIFIED_PHARMACIES_IN_BANGALORE)
  /\ last.ret = <<>>

\* The list of records under a key of an inventory map; empty without the key.
ListUnder(inventory, key) == IF key \in DOMAIN inventory THEN inventory[key] ELSE <<>>

\* The list after has at every position of the list before a record of the
\* same pharmacy, and the same record unless the pharmacy is pharmacyId.
KeepsOthers(before, after, pharmacyId) ==
  /\ Len(after) >= Len(before)
  /\ \A i \in DOMAIN before :
       /\ after[i].pharmacyId = before[i].pharmacyId
       /\ before[i].pharmacyId # pharmacyId => after[i] = before[i]

\* C22: an upsert keeps every key; under a key that the batch does not name
\* the list is unchanged; under a key that it names every record stays at
\* its position, the records of other pharmacies are unchanged, and the
\* list grows by one record of the pharmacy, at the end, exactly when the
\* pharmacy had none.
C22_UpsertFrame ==
  last.op = "upsert" =>
    LET inventory == Inventory
        inventoryBefore == InventoryBefore
        named == {toLowerCase(last.items[k].medicineName) : k \in DOMAIN last.items}
    IN /\ DOMAIN inventory = DOMAIN inventoryBefore \cup named
       /\ \A key \in DOMAIN inventory \ named : inventory[key] = inventoryBefore[key]
       /\ \A key \in named :
            LET before == ListUnder(inventoryBefore, key)
                after == inventory[key]
            IN /\ KeepsOthers(before, after, last.pharmacyId)
               /\ IF EntriesOf(before, last.pharmacyId) # {}
                    THEN Len(after) = Len(before)
                    ELSE /\ Len(after) = Len(before) + 1
                         /\ after[Len(after)].pharmacyId = last.pharmacyId

\* An upsert of two items: under the key of one the pharmacy had a record
\* with another price that other records follow, under the key of the other
\* it had none and the list held records of other pharmacies.
C22_Witness ==
  /\ last.op = "upsert"
  /\ \E k1, k2 \in DOMAIN last.items :
       LET key1 == toLowerCase(last.items[k1].medicineName)
           key2 == toLowerCase(last.items[k2].medicineName)
           before1 == ListUnder(InventoryBefore, key1)
           before2 == ListUnder(InventoryBefore, key2)
       IN /\ key1 # key2
          /\ \E i \in EntriesOf(before1, last.pharmacyId) :
               /\ i < Len(before1)
               /\ before1[i].price # last.items[k1].price
               /\ Inventory[key1][i].price = last.items[k1].price
          /\ EntriesOf(before2, last.pharmacyId) = {}
          /\ before2 # <<>>

\* C23: updateStock on an existing record changes the stock of that record
\* and nothing else; remove takes the records of the pharmacy out of the
\* list under the key of the medicine, the other records of the list keep
\* their values and their order, and the key goes when none is left. The
\* lists under the other keys are unchanged by both.
C23_StockAndRemoveFrame ==
  (last.op \in {"updateStock", "remove"} /\ ~NoRecordBefore) =>
    LET inventory == Inventory
        inventoryBefore == InventoryBefore
        key == toLowerCase(last.medicineName)
        before == inventoryBefore[key]
        after == ListUnder(inventory, key)
        others == {i \in DOMAIN before : before[i].pharmacyId # last.pharmacyId}
    IN /\ DOMAIN inventory \ {key} = DOMAIN inventoryBefore \ {key}
       /\ \A k \in DOMAIN inventory \ {key} : inventory[k] = inventoryBefore[k]
       /\ last.op = "updateStock" =>
            /\ Len(after) = Len(before)
            /\ \A i \in DOMAIN before :
                 /\ after[i].pharmacyId = before[i].pharmacyId
                 /\ after[i].price = before[i].price
                 /\ after[i].stock = IF i \in others THEN before[i].stock ELSE last.stock
       /\ last.op = "remove" =>
            /\ Len(after) = Cardinality(others)
            /\ \A i \in others : after[Cardinality({j \in others : j <= i})] = before[i]
            /\ key \in DOMAIN inventory <=> others # {}

\* A remove of a record that stood between the records of other pharmacies
\* in its list, in a map that holds another key.
C23_Witness ==
  /\ last.op = "remove"
  /\ ~NoRecordBefore
  /\ LET key == toLowerCase(last.medicineName)
         before == InventoryBefore[key]
     IN /\ \E i \in EntriesOf(before, last.pharmacyId) : 1 < i /\ i < Len(before)
        /\ Len(Inventory[key]) = Len(before) - 1
        /\ DOMAIN Inventory # {key}

\* Items of the last upsert's batch that come without a stock and are the
\* last of the batch for their key.
WithoutStock ==
  {k \in DOMAIN last.items :
     /\ last.items[k].stock = Undefined
     /\ \A j \in DOMAIN last.items :
          toLowerCase(last.items[j].medicineName) = toLowerCase(last.items[k].medicineName)
            => j <= k}

\* C24: an item that comes without a stock is stored as In Stock, whether
\* its record is new or replaces one of any stock; the pharmacy, when the
\* directory lists it, then passes the filter of the search for that
\* medicine, and is in the result when no more than MAX_RESULTS pharmacies
\* pass it.
C24_StockDefaultsToInStock ==
  last.op = "upsert" =>
    \A k \in WithoutStock :
      LET name == last.items[k].medicineName
          records == getPharmaciesForMedicine(inventoryStore, name)
          dir == Directory
          available == {i \in DOMAIN records : records[i].stock = InStock}
      IN /\ \A i \in EntriesOf(records, last.pharmacyId) : records[i].stock = InStock
         /\ EntriesOf(records, last.pharmacyId) # {}
         /\ \A d \in DOMAIN dir, userLocation \in UserLocations :
              dir[d].id = last.pharmacyId =>
                /\ isAvailable(enrichPharmacy(dir[d], records, userLocation))
                /\ Cardinality(available) <= MAX_RESULTS =>
                     LET results == findNearbyPharmacies(inventoryStore, dynamicStore,
                                                         userLocation, name)
                     IN \E i \in DOMAIN results : results[i].id = last.pharmacyId

\* An item without a stock has replaced a record that was Low Stock, and
\* the pharmacy is in the directory.
C24_Witness ==
  /\ last.op = "upsert"
  /\ \E k \in WithoutStock :
       LET key == toLowerCase(last.items[k].medicineName)
       IN /\ key \in DOMAIN InventoryBefore
          /\ \E i \in EntriesOf(InventoryBefore[key], last.pharmacyId) :
               /\ InventoryBefore[key][i].stock = LowStock
               /\ Inventory[key][i].stock = InStock
  /\ \E d \in DOMAIN Directory : Directory[d].id = last.pharmacyId

\* The reduction with the second rule alone: a later candidate replaces
\* best iff it is cheaper and less than 2 km farther.
RECURSIVE ReductionByPrice(_, _, _)
ReductionByPrice(results, k, best) ==
  IF k > Len(results)
    THEN best
    ELSE LET p == results[k]
             b == results[best]
         IN ReductionByPrice(results, k + 1,
              IF p.price < b.price /\ p.distance < b.distance + 20 THEN k ELSE best)

\* C25: no result is closer than a result before it, so the first rule of
\* the reduction (closer, and less than 10 dearer) holds for no candidate
\* against any earlier result, and the flagged result is the one that the
\* reduction with the second rule alone chooses.
C25_FirstRuleNeverFires ==
  (Searched /\ last.ret # <<>>) =>
    /\ \A i, j \in DOMAIN last.ret :
         i < j => ~(/\ last.ret[j].distance < last.ret[i].distance
                    /\ last.ret[j].price < last.ret[i].price + 10)
    /\ Flagged(last.ret) = {ReductionByPrice(last.ret, 2, 1)}

\* A search whose results hold two pharmacies at the same distance, the
\* later no dearer than the earlier, and whose flagged result is not the
\* nearest.
C25_Witness ==
  /\ Searched
  /\ \E i, j \in DOMAIN last.ret :
       /\ i < j
       /\ last.ret[i].distance = last.ret[j].distance
       /\ last.ret[j].price <= last.ret[i].price
  /\ Flagged(last.ret) \cap {1} = {}
  /\ Flagged(last.ret) # {}

\* C26: in a non-empty result list the flagged result is no dearer than the
\* nearest result, and it is the nearest result unless a later result is
\* cheaper than the nearest.
C26_BestNoDearerThanNearest ==
  (Searched /\ last.ret # <<>>) =>
    /\ \A f \in Flagged(last.ret) : last.ret[f].price <= last.ret[1].price
    /\ (\A j \in DOMAIN last.ret : last.ret[j].price >= last.ret[1].price)
         => Flagged(last.ret) = {1}

\* The flagged result is a later one, cheaper than the nearest, and a result
\* after it is cheaper still but too far from it to be preferred.
C26_Witness ==
  /\ Searched
  /\ \E f \in Flagged(last.ret) :
       /\ f > 1
       /\ last.ret[f].price < last.ret[1].price
       /\ \E j \in DOMAIN last.ret :
            /\ j > f
            /\ last.ret[j].price < last.ret[f].price
            /\ last.ret[j].distance >= last.ret[f].distance + 20

----------------------------------------------------------------------------
(* PharmacyOwnerPage: the owner's own inventory list (React state, saved   *)
(* under its own localStorage key) next to the global inventory map        *)

\* Position of the first item of inventory with the name, case ignored; 0: none
findItemIndex(inventory, medicineName) ==
  LET lowerName == toLowerCase(medicineName)
      found == {i \in DOMAIN inventory : toLowerCase(inventory[i].medicineName) = lowerName}
  IN IF found = {} THEN 0 ELSE SetMin(found)

\* updatedInventory of handleItemAdd
addItem(inventory, fullNewItem) ==
  LET existingIndex == findItemIndex(inventory, fullNewItem.medicineName)
  IN IF existingIndex > 0
       THEN [inventory EXCEPT ![existingIndex] = fullNewItem]
       ELSE Append(inventory, fullNewItem)

\* parsedItems.forEach of handleSlipUpload, from item k on
RECURSIVE mergeParsedItems(_, _, _)
mergeParsedItems(updatedInventory, parsedItems, k) ==
  IF k > Len(parsedItems)
    THEN updatedInventory
    ELSE LET newItem == parsedItems[k]
             existingIndex == findItemIndex(updatedInventory, newItem.medicineName)
         IN mergeParsedItems(
              IF existingIndex > 0
                THEN [updatedInventory EXCEPT ![existingIndex].price = newItem.price,
                                              ![existingIndex].stock = newItem.stock]
                ELSE Append(updatedInventory, newItem),
              parsedItems, k + 1)

\* updatedInventory of handleStockStatusChange
changeStock(inventory, medicineName, newStatus) ==
  LET lowerName == toLowerCase(medicineName)
  IN [i \in DOMAIN inventory |->
        IF toLowerCase(inventory[i].medicineName) = lowerName
          THEN [inventory[i] EXCEPT !.stock = newStatus]
          ELSE inventory[i]]

\* updatedInventory of handleItemDelete
deleteItem(inventory, medicineNameToDelete) ==
  LET lowerName == toLowerCase(medicineNameToDelete)
  IN SelectSeq(inventory, LAMBDA item : toLowerCase(item.medicineName) # lowerName)

\* Inputs of the owner's page. parsePriceSlip gives every item the stock
\* StockStatus.Available, which the enum does not define.
OwnerNames == {Dolo, dolo, Ibu}

OwnerPrices == {40, 45}

ParsedSlips ==
  { <<>>,
    <<Item(Dolo, 42, Undefined)>>,
    <<Item(Ibu, 30, Undefined), Item(dolo, 43, Undefined)>>,
    <<Item(Dolo, 42, Undefined), Item(dolo, 44, Undefined)>> }

\* The owner of the first registration is logged in, the page has just been
\* rendered with an empty inventory, and the global map holds no record of
\* the owner's pharmacy.
InitOwner ==
  /\ inventoryStore = StockedStore
  /\ dynamicStore = FirstRegistered.stored
  /\ registry = (toLowerCase(FirstRegistration[1].name) :> FirstRegistered.ret.id)
  /\ last = [op |-> "none"]
  /\ nops = 0
  /\ pending = <<>>
  /\ page = [owner |-> FirstRegistered.ret.id, inventory |-> <<>>, stored |-> NullItem,
             uploads |-> <<>>, overlapped |-> FALSE]

\* History: a handler completes while a handleSlipUpload call (another one)
\* awaits its parse.
Overlaps(others) == page.overlapped \/ others # <<>>

\* handleItemAdd(newItem): runs to its end in one turn (the only await
\* follows the last statement)
HandleItemAdd(medicineName, price) ==
  LET fullNewItem == Item(medicineName, price, InStock)
      updatedInventory == addItem(page.inventory, fullNewItem)
  IN /\ nops < MaxOps
     /\ page' = [page EXCEPT !.inventory = updatedInventory,
                             !.stored = JsonItem(updatedInventory),
                             !.overlapped = Overlaps(page.uploads)]
     /\ inventoryStore' = updateGlobalInventory(inventoryStore, page.owner, <<fullNewItem>>)
     /\ last' = [op |-> "handleItemAdd", medicineName |-> medicineName, price |-> price,
                 before |-> Before]
     /\ nops' = nops + 1
     /\ UNCHANGED <<dynamicStore, registry>>
     /\ pending' = Observed(inventoryStore', dynamicStore')

\* handleSlipUpload(file) up to its first await: the call keeps the
\* inventory of the render that created the handler.
SlipUploadStart ==
  /\ Len(page.uploads) < MaxUploads
  /\ page' = [page EXCEPT !.uploads = Append(@, [inventory |-> page.inventory])]
  /\ UNCHANGED <<inventoryStore, dynamicStore, last, registry, nops, pending>>

\* handleSlipUpload from the moment parsePriceSlip resolves with parsedItems
\* for pending call u (the calls resolve in any order): an empty list makes
\* the handler throw before it changes anything; otherwise the items are
\* merged into the inventory the call has kept, not the one of the latest
\* render.
SlipUploadFinish(u, parsedItems) ==
  LET others == [i \in 1..(Len(page.uploads) - 1) |->
                   IF i < u THEN page.uploads[i] ELSE page.uploads[i + 1]]
      updatedInventory == mergeParsedItems(page.uploads[u].inventory, parsedItems, 1)
  IN /\ nops < MaxOps
     /\ u \in DOMAIN page.uploads
     /\ IF parsedItems = <<>>
          THEN /\ page' = [page EXCEPT !.uploads = others]
               /\ last' = [op |-> "handleSlipUpload", parsedItems |-> parsedItems,
                           threw |-> TRUE, before |-> Before]
               /\ UNCHANGED inventoryStore
          ELSE /\ page' = [page EXCEPT !.inventory = updatedInventory,
                                       !.stored = JsonItem(updatedInventory),
                                       !.uploads = others,
                                       !.overlapped = Overlaps(others)]
               /\ inventoryStore' = updateGlobalInventory(inventoryStore, page.owner,
                                                          parsedItems)
               /\ last' = [op |-> "handleSlipUpload", parsedItems |-> parsedItems,
                           threw |-> FALSE, before |-> Before]
     /\ nops' = nops + 1
     /\ UNCHANGED <<dynamicStore, registry>>
     /\ pending' = Observed(inventoryStore', dynamicStore')

\* handleStockStatusChange(medicineName, newStatus)
HandleStockStatusChange(medicineName, newStatus) ==
  LET updatedInventory == changeStock(page.inventory, medicineName, newStatus)
  IN /\ nops < MaxOps
     /\ page' = [page EXCEPT !.inventory = updatedInventory,
                             !.stored = JsonItem(updatedInventory),
                             !.overlapped = Overlaps(page.uploads)]
     /\ inventoryStore' = updateStockStatusInGlobalInventory(inventoryStore, page.owner,
                                                             medicineName, newStatus)
     /\ last' = [op |-> "handleStockStatusChange", medicineName |-> medicineName,
                 stock |-> newStatus, before |-> Before]
     /\ nops' = nops + 1
     /\ UNCHANGED <<dynamicStore, registry>>
     /\ pending' = Observed(inventoryStore', dynamicStore')

\* handleItemDelete(medicineNameToDelete)
HandleItemDelete(medicineNameToDelete) ==
  LET updatedInventory == deleteItem(page.inventory, medicineNameToDelete)
  IN /\ nops < MaxOps
     /\ page' = [page EXCEPT !.inventory = updatedInventory,
                             !.stored = JsonItem(updatedInventory),
                             !.overlapped = Overlaps(page.uploads)]
     /\ inventoryStore' = deleteFromGlobalInventory(inventoryStore, page.owner,
                                                    medicineNameToDelete)
     /\ last' = [op |-> "handleItemDelete", medicineName |-> medicineNameToDelete,
                 before |-> Before]
     /\ nops' = nops + 1
     /\ UNCHANGED <<dynamicStore, registry>>
     /\ pending' = Observed(inventoryStore', dynamicStore')

NextOwner ==
  \/ \E medicineName \in OwnerNames, price \in OwnerPrices : HandleItemAdd(medicineName, price)
  \/ SlipUploadStart
  \/ \E u \in 1..(MaxUploads + 1), parsedItems \in ParsedSlips : SlipUploadFinish(u, parsedItems)
  \/ \E medicineName \in OwnerNames : HandleStockStatusChange(medicineName, LowStock)
  \/ \E medicineName \in OwnerNames : HandleItemDelete(medicineName)

SpecOwner == InitOwner /\ [][NextOwner]_vars

\* The owner's list and the global map agree: the lower-cased names of the
\* list are the keys under which the map holds a record of the owner's
\* pharmacy, each record has the price of the item of that name, and the
\* list holds one item per lower-cased name.
LocalMirrorsGlobal ==
  LET inventory == Inventory
      local == page.inventory
      localNames == {toLowerCase(local[i].medicineName) : i \in DOMAIN local}
      globalKeys == {k \in DOMAIN inventory : EntriesOf(inventory[k], page.owner) # {}}
  IN /\ localNames = globalKeys
     /\ \A i \in DOMAIN local :
          \A e \in EntriesOf(ListUnder(inventory, toLowerCase(local[i].medicineName)),
                             page.owner) :
            inventory[toLowerCase(local[i].medicineName)][e].price = local[i].price
     /\ \A i, j \in DOMAIN local :
          toLowerCase(local[i].medicineName) = toLowerCase(local[j].medicineName) => i = j

\* C27: when every handleItemAdd, handleSlipUpload, handleStockStatusChange
\* and handleItemDelete call of the logged-in owner has completed, the
\* owner's list and the global map agree.
C27_OwnerListMirrorsGlobal == page.uploads = <<>> => LocalMirrorsGlobal

\* A price slip has been merged after an item was added while it was being
\* parsed: every call has completed, the global map holds the added item and
\* the owner's list does not.
C27_Witness ==
  /\ last.op = "handleSlipUpload"
  /\ ~last.threw
  /\ page.uploads = <<>>
  /\ page.overlapped
  /\ \E k \in DOMAIN Inventory :
       /\ EntriesOf(Inventory[k], page.owner) # {}
       /\ \A i \in DOMAIN page.inventory : toLowerCase(page.inventory[i].medicineName) # k

\* As long as no handler has completed while a handleSlipUpload call was
\* awaiting its parse, the owner's list and the global map agree.
SequentialCallsMirror == (page.uploads = <<>> /\ ~page.overlapped) => LocalMirrorsGlobal

====
